---- MODULE Spec2Model ----
(***************************************************************************)
(* A model of lvt_utils.py: the current-tax calculator                     *)
(* (calculate_current_tax), the split-rate solver (model_split_rate_tax)   *)
(* and the impact reporter (analyze_tax_impact_by_category).               *)
(*                                                                         *)
(* Cells are floating-point values.  A finite value is kept exactly, as    *)
(* n/d * 2^e with n and d odd and coprime (rounding is not modelled); NaN  *)
(* and the two infinities are values of their own, with the arithmetic     *)
(* numpy gives them.  Python's scalar division raises ZeroDivisionError    *)
(* where numpy's yields inf or NaN, and the model keeps the two apart.     *)
(***************************************************************************)
EXTENDS Integers, Sequences, FiniteSets, TLC

(***************************************************************************)
(* Numbers                                                                 *)
(***************************************************************************)
Abs(x) == IF x < 0 THEN -x ELSE x

Sign(x) == IF x < 0 THEN -1 ELSE IF x > 0 THEN 1 ELSE 0

MinInt(x, y) == IF x <= y THEN x ELSE y

RECURSIVE Gcd(_, _)
Gcd(a, b) == IF b = 0 THEN a ELSE Gcd(b, a % b)

RECURSIVE Twos(_)
Twos(x) == IF x # 0 /\ x % 2 = 0 THEN 1 + Twos(x \div 2) ELSE 0

RECURSIVE Pow2(_)
Pow2(k) == IF k = 0 THEN 1 ELSE 2 * Pow2(k - 1)

Cell(k, n, d, e) == [k |-> k, n |-> n, d |-> d, e |-> e]

NaN == Cell("nan", 0, 1, 0)

PInf == Cell("inf", 1, 1, 0)

NInf == Cell("inf", -1, 1, 0)

Zero == Cell("num", 0, 1, 0)

\* the float n/d * 2^e in normal form (d # 0)
Norm(n, d, e) ==
    IF n = 0 THEN Zero
    ELSE LET s  == IF d < 0 THEN -1 ELSE 1
             g  == Gcd(Abs(n), Abs(d))
             n1 == (s * n) \div g
             d1 == (s * d) \div g
             tn == Twos(n1)
             td == Twos(d1)
         IN  Cell("num", n1 \div Pow2(tn), d1 \div Pow2(td), e + tn - td)

Num(n) == Norm(n, 1, 0)

Frac(n, d) == Norm(n, d, 0)

IsNaN(a) == a.k = "nan"

IsInf(a) == a.k = "inf"

IsFinite(a) == a.k = "num"

IsZero(a) == a.k = "num" /\ a.n = 0

\* the sign of a number that is not NaN
SignOf(a) == Sign(a.n)

Neg(a) == IF a.k \in {"num", "inf"} THEN [a EXCEPT !.n = -a.n] ELSE a

\* floor(log2 x) for x >= 1
RECURSIVE Log2(_)
Log2(x) == IF x < 2 THEN 0 ELSE 1 + Log2(x \div 2)

\* a/b against c/d for positive integers, by their continued fractions
\* (no product is formed, so nothing leaves 32 bits)
RECURSIVE CmpFrac(_, _, _, _)
CmpFrac(a, b, c, d) ==
    IF a \div b # c \div d THEN Sign((a \div b) - (c \div d))
    ELSE IF a % b = 0 \/ c % d = 0 THEN Sign((a % b) - (c % d))
    ELSE CmpFrac(d, c % d, b, a % b)

\* (an/ad) * 2^k against bn/bd, for positive integers and k >= 0
CmpScaled(an, ad, bn, bd, k) ==
    LET l == Log2(an) - Log2(ad) + k - (Log2(bn) - Log2(bd))
    IN  IF l >= 2 THEN 1
        ELSE IF l <= -2 THEN -1
        ELSE IF an <= bd THEN CmpFrac(an * Pow2(k), ad, bn, bd)
        ELSE CmpFrac(an, ad, bn, bd * Pow2(k))

\* |a| against |b| for finite non-zero a, b
CmpMag(a, b) ==
    IF a.e >= b.e THEN CmpScaled(Abs(a.n), a.d, Abs(b.n), b.d, a.e - b.e)
    ELSE -CmpScaled(Abs(b.n), b.d, Abs(a.n), a.d, b.e - a.e)

\* -1, 0, 1 as a < b, a = b, a > b, for a, b not NaN
Cmp(a, b) ==
    IF IsInf(a) \/ IsInf(b)
    THEN Sign((IF IsInf(a) THEN a.n ELSE 0) - (IF IsInf(b) THEN b.n ELSE 0))
    ELSE IF SignOf(a) # SignOf(b) THEN Sign(SignOf(a) - SignOf(b))
    ELSE IF SignOf(a) = 0 THEN 0
    ELSE SignOf(a) * CmpMag(a, b)

\* the comparisons of floats: every comparison with NaN is false
FGt(a, b) == ~IsNaN(a) /\ ~IsNaN(b) /\ Cmp(a, b) = 1

FLt(a, b) == ~IsNaN(a) /\ ~IsNaN(b) /\ Cmp(a, b) = -1

FLe(a, b) == ~IsNaN(a) /\ ~IsNaN(b) /\ Cmp(a, b) <= 0

FEq(a, b) == ~IsNaN(a) /\ ~IsNaN(b) /\ Cmp(a, b) = 0

FMul(a, b) ==
    IF IsNaN(a) \/ IsNaN(b) THEN NaN
    ELSE IF IsInf(a) \/ IsInf(b)
    THEN (IF IsZero(a) \/ IsZero(b) THEN NaN
          ELSE IF SignOf(a) * SignOf(b) > 0 THEN PInf ELSE NInf)
    ELSE IF IsZero(a) \/ IsZero(b) THEN Zero
    ELSE LET g1 == Gcd(Abs(a.n), b.d)
             g2 == Gcd(Abs(b.n), a.d)
         IN  Cell("num", (a.n \div g1) * (b.n \div g2),
                         (a.d \div g2) * (b.d \div g1), a.e + b.e)

\* 1/b for finite non-zero b
Recip(b) == Cell("num", SignOf(b) * b.d, Abs(b.n), -b.e)

\* numpy's division: x/0 is inf or NaN, never an error
FDiv(a, b) ==
    IF IsNaN(a) \/ IsNaN(b) THEN NaN
    ELSE IF IsInf(b) THEN (IF IsInf(a) THEN NaN ELSE Zero)
    ELSE IF IsZero(b)
    THEN (IF IsZero(a) THEN NaN ELSE IF SignOf(a) > 0 THEN PInf ELSE NInf)
    ELSE FMul(a, Recip(b))

FAdd(a, b) ==
    IF IsNaN(a) \/ IsNaN(b) THEN NaN
    ELSE IF IsInf(a) THEN (IF IsInf(b) /\ b.n # a.n THEN NaN ELSE a)
    ELSE IF IsInf(b) THEN b
    ELSE IF IsZero(a) THEN b
    ELSE IF IsZero(b) THEN a
    ELSE LET e == MinInt(a.e, b.e)
             g == Gcd(a.d, b.d)
             l == (a.d \div g) * b.d
         IN  Norm(a.n * Pow2(a.e - e) * (l \div a.d)
                  + b.n * Pow2(b.e - e) * (l \div b.d), l, e)

FSub(a, b) == FAdd(a, Neg(b))

FAbs(a) == IF a.k \in {"num", "inf"} THEN [a EXCEPT !.n = Abs(a.n)] ELSE a

\* np.minimum: NaN if either is
FMin(a, b) ==
    IF IsNaN(a) \/ IsNaN(b) THEN NaN ELSE IF Cmp(a, b) <= 0 THEN a ELSE b

(***************************************************************************)
(* Series and DataFrames                                                   *)
(*                                                                         *)
(* A Series is a sequence of cells, one per row.  A DataFrame is a set of  *)
(* column names and a sequence of rows, each a function from the column    *)
(* names to cells.  A cell is a float, a text that is no number ("str"),   *)
(* or a boolean ("bool", n = 1 for True).                                  *)
(***************************************************************************)
None == Cell("none", 0, 1, 0)

Str(n) == Cell("str", n, 1, 0)

Bool(b) == Cell("bool", IF b THEN 1 ELSE 0, 1, 0)

Frame(cols, rows) == [cols |-> cols, rows |-> rows]

NRows(t) == Len(t.rows)

Column(t, c) == [i \in 1..NRows(t) |-> t.rows[i][c]]

\* t[c] = s
SetColumn(t, c, s) ==
    Frame(t.cols \cup {c},
          [i \in 1..NRows(t) |->
              [x \in t.cols \cup {c} |-> IF x = c THEN s[i] ELSE t.rows[i][x]]])

\* text that is no number read as 0
BadTextAsZero(a) == Zero

\* pd.to_numeric(errors='coerce') on one cell: text that is no number becomes NaN
CoerceBadText(a) == NaN

Coerce(a) ==
    IF a.k = "str" THEN CoerceBadText(a)
    ELSE IF a.k = "bool" THEN Num(a.n)
    ELSE IF a.k = "none" THEN NaN
    ELSE a

ToNumeric(s) == [i \in DOMAIN s |-> Coerce(s[i])]

FillNa(s, v) == [i \in DOMAIN s |-> IF IsNaN(s[i]) THEN v ELSE s[i]]

\* s.where(flag == 0, 0)
WhereFlagZero(s, flag) ==
    [i \in DOMAIN s |-> IF FEq(flag[i], Zero) THEN s[i] ELSE Zero]

\* no clip at all
NoClip(s) == s

\* s.clip(lower=0): NaN stays NaN
ClipLower0(s) == [i \in DOMAIN s |-> IF FLt(s[i], Zero) THEN Zero ELSE s[i]]

SAdd(s, r) == [i \in DOMAIN s |-> FAdd(s[i], r[i])]

SSub(s, r) == [i \in DOMAIN s |-> FSub(s[i], r[i])]

SMul(s, r) == [i \in DOMAIN s |-> FMul(s[i], r[i])]

SDiv(s, r) == [i \in DOMAIN s |-> FDiv(s[i], r[i])]

SScale(s, v) == [i \in DOMAIN s |-> FMul(s[i], v)]

SOver(s, v) == [i \in DOMAIN s |-> FDiv(s[i], v)]

SGt(s, r) == [i \in DOMAIN s |-> Bool(FGt(s[i], r[i]))]

SMin(s, r) == [i \in DOMAIN s |-> FMin(s[i], r[i])]

AnyTrue(s) == \E i \in DOMAIN s : s[i].n = 1 /\ s[i].k = "bool"

\* Series.sum(): NaN is skipped
RECURSIVE SumFrom(_, _)
SumFrom(s, i) ==
    IF i > Len(s) THEN Zero
    ELSE IF IsNaN(s[i]) THEN SumFrom(s, i + 1)
    ELSE FAdd(s[i], SumFrom(s, i + 1))

Sum(s) == SumFrom(s, 1)

(***************************************************************************)
(* The parcels the inputs are drawn from.  Values are small (a value of 2, *)
(* a millage of 1000 mills, a cap of one half) so that the exact           *)
(* arithmetic stays within 32-bit integers.                                *)
(***************************************************************************)
MaxRows == 2

Txt == Str(0)

Half == Frac(1, 2)

BaseCols == {"land", "improvement", "value", "millage", "second_millage",
             "exemption", "exempt_flag", "cap", "category"}

Parcel(land, imp, value, millage, second, ex, flag, cap, cat) ==
    [c \in BaseCols |->
        CASE c = "land" -> land
          [] c = "improvement" -> imp
          [] c = "value" -> value
          [] c = "millage" -> millage
          [] c = "second_millage" -> second
          [] c = "exemption" -> ex
          [] c = "exempt_flag" -> flag
          [] c = "cap" -> cap
          [] c = "category" -> Str(cat)]

Pool ==
    << \* land only, no exemption, no cap given
       Parcel(Num(2), Zero, Num(2), Num(1000), Num(500), Zero, Zero, Txt, 1),
       \* improvement only, exemption above the improvement value, cap 1/2
       Parcel(Zero, Num(2), Num(2), Num(1000), Num(1000), Num(3), Zero, Half, 2),
       \* land and improvement, small exemption, tax exactly at the cap
       Parcel(Num(2), Num(2), Num(4), Num(500), Zero, Num(1), Zero, Half, 1),
       \* flagged exempt, tax above the cap when the flag is not used
       Parcel(Num(2), Num(2), Num(4), Num(1000), Num(500), Num(3), Num(1), Half, 2),
       \* all zero
       Parcel(Zero, Zero, Zero, Zero, Zero, Zero, Zero, Zero, 1),
       \* text in the land, value, secondary millage, exemption, flag and cap cells
       Parcel(Txt, Num(2), Txt, Num(1000), Txt, Txt, Txt, Txt, 2),
       \* text in the improvement and millage cells, secondary millage a number
       Parcel(Num(2), Txt, Num(2), Txt, Num(500), Zero, Zero, Half, 1),
       \* negative land value
       Parcel(Num(-2), Num(2), Num(-2), Num(1000), Num(500), Zero, Zero, Half, 2),
       \* secondary millage above the primary, cap 0
       Parcel(Num(2), Num(2), Num(4), Num(1000), Num(2000), Zero, Zero, Zero, 2),
       \* improvement only, exemption equal to the improvement value
       Parcel(Zero, Num(4), Num(4), Num(500), Num(500), Num(4), Zero, Txt, 2) >>

\* the choices of rows, up to their order: non-decreasing indices into Pool
RowChoices ==
    UNION {{ix \in [1..k -> 1..Len(Pool)] :
               \A i \in 1..k : \A j \in 1..k : i <= j => ix[i] <= ix[j]} :
           k \in 0..MaxRows}

PoolFrames == {Frame(BaseCols, [i \in DOMAIN ix |-> Pool[ix[i]]]) : ix \in RowChoices}

\* a parcel flagged exempt whose cap fraction is negative (millage 0 and a
\* negative secondary millage for the calculator)
ExemptNegativeCap ==
    Parcel(Num(2), Zero, Num(2), Zero, Num(-500), Zero, Num(1), Frac(-1, 2), 1)

\* a parcel with negative millage, exemption and cap fraction
NegativeRates ==
    Parcel(Num(2), Zero, Num(2), Num(-500), Num(-1000), Num(-1), Zero, Frac(-1, 2), 1)

\* the two parcels with a negative cap fraction, alone and next to the
\* land-only parcel
NegativeFrames ==
    {Frame(BaseCols, <<NegativeRates>>),
     Frame(BaseCols, <<Pool[1], NegativeRates>>),
     Frame(BaseCols, <<Pool[1], ExemptNegativeCap>>)}

\* three parcels worth 100000, 200000 and 0 at a millage of 20, with no other field
ExampleFrames ==
    {Frame({"value", "millage"},
           <<[value |-> Num(100000), millage |-> Num(20)],
             [value |-> Num(200000), millage |-> Num(20)],
             [value |-> Zero, millage |-> Num(20)]>>)}

InputFrames == PoolFrames \cup NegativeFrames \cup ExampleFrames

NoFrame == Frame({}, << >>)

(***************************************************************************)
(* Arguments                                                               *)
(***************************************************************************)
AStr(s) == [t |-> "str", s |-> s]

ANone == [t |-> "none", s |-> ""]

\* an argument that is neither a string nor None
AInt == [t |-> "int", s |-> ""]

IsStr(a) == a.t = "str"

Given(a) == a.t # "none"

(***************************************************************************)
(* State                                                                   *)
(***************************************************************************)
VARIABLES
    frames,     \* the DataFrame objects: "df" the caller's, "copy" the one df.copy() makes
    result_df,  \* the object the function's result_df names ("none" before the copy)
    pc,         \* where the call in progress stands
    call,       \* the function called and its arguments
    loc,        \* the function's local variables
    ret,        \* how the last call ended and what it returned
    df0,        \* the caller's DataFrame as it was when the call was made
    kept        \* an earlier call and its outcome, kept by the caller to compare

vars == <<frames, result_df, pc, call, loc, ret, df0, kept>>

NoLocals ==
    [taxable_value |-> << >>, adj_land_value |-> << >>,
     adj_improvement_value |-> << >>, total_land_value |-> None,
     total_improvement_value |-> None, denominator |-> None,
     current_revenue |-> None, land_improvement_ratio |-> None,
     improvement_millage |-> None, land_millage |-> None,
     iteration |-> 0, new_total_revenue |-> None, converged |-> FALSE,
     warned |-> FALSE, summary |-> << >>]

NoReturn ==
    [status |-> "none", msg |-> "", frame |-> "none",
     total_revenue |-> None, second_revenue |-> None,
     land_millage |-> None, improvement_millage |-> None, summary |-> << >>]

Raised(kind, msg) == [NoReturn EXCEPT !.status = kind, !.msg = msg]

\* nothing kept
NoKept == [call |-> [fn |-> "none"], df |-> NoFrame, ret |-> NoReturn, table |-> NoFrame]

Idle == pc = "idle"

\* the object result_df names
Work == frames[result_df]

\* result_df[c] = s
Assign(c, s) == [frames EXCEPT ![result_df] = SetColumn(@, c, s)]

\* no copy: the same object under another name
SameRef(r) == r

\* df.copy(): a new object
CopyRef(r) == "copy"

\* what every call starts from
Enter(a) ==
    /\ Idle
    /\ call' = a
    /\ df0' = frames["df"]
    /\ loc' = NoLocals
    /\ result_df' = "none"
    /\ frames' = [frames EXCEPT !["copy"] = NoFrame]
    /\ kept' = kept

\* raise
Raise(kind, msg) ==
    /\ pc' = "raised"
    /\ ret' = Raised(kind, msg)

(***************************************************************************)
(* calculate_current_tax                                                   *)
(***************************************************************************)
CalcArgsOf(x, f, c, s) ==
    [fn |-> "calculate_current_tax", df_is_frame |-> TRUE,
     tax_value_col |-> AStr("value"), millage_rate_col |-> AStr("millage"),
     exemption_col |-> IF x THEN AStr("exemption") ELSE ANone,
     exemption_flag_col |-> IF f THEN AStr("exempt_flag") ELSE ANone,
     percentage_cap_col |-> IF c THEN AStr("cap") ELSE ANone,
     second_millage_rate_col |-> IF s THEN AStr("second_millage") ELSE ANone]

CalcColArgs == {"tax_value_col", "millage_rate_col", "exemption_col",
                "exemption_flag_col", "percentage_cap_col", "second_millage_rate_col"}

\* every choice of optional fields; and, with all of them, one argument of the
\* wrong type or naming no column, or a df that is no DataFrame
CalcArgs ==
    {CalcArgsOf(x, f, c, s) : x \in BOOLEAN, f \in BOOLEAN, c \in BOOLEAN, s \in BOOLEAN}
    \cup {[CalcArgsOf(TRUE, TRUE, TRUE, TRUE) EXCEPT ![k] = b] :
             k \in CalcColArgs, b \in {AInt, AStr("nope")}}
    \cup {[CalcArgsOf(TRUE, TRUE, TRUE, TRUE) EXCEPT !.df_is_frame = FALSE]}

\* lines 32-45: the first argument of the wrong type ("" if none)
CalcTypeError(a) ==
    IF ~a.df_is_frame THEN "df"
    ELSE IF ~IsStr(a.tax_value_col) THEN "tax_value_col"
    ELSE IF ~IsStr(a.millage_rate_col) THEN "millage_rate_col"
    ELSE IF Given(a.exemption_col) /\ ~IsStr(a.exemption_col) THEN "exemption_col"
    ELSE IF Given(a.exemption_flag_col) /\ ~IsStr(a.exemption_flag_col)
    THEN "exemption_flag_col"
    ELSE IF Given(a.percentage_cap_col) /\ ~IsStr(a.percentage_cap_col)
    THEN "percentage_cap_col"
    ELSE IF Given(a.second_millage_rate_col) /\ ~IsStr(a.second_millage_rate_col)
    THEN "second_millage_rate_col"
    ELSE ""

\* lines 48-58: the first argument naming no column of df ("" if none)
CalcMissingColumn(a, t) ==
    IF a.tax_value_col.s \notin t.cols THEN "tax_value_col"
    ELSE IF a.millage_rate_col.s \notin t.cols THEN "millage_rate_col"
    ELSE IF Given(a.exemption_col) /\ a.exemption_col.s \notin t.cols
    THEN "exemption_col"
    ELSE IF Given(a.exemption_flag_col) /\ a.exemption_flag_col.s \notin t.cols
    THEN "exemption_flag_col"
    ELSE IF Given(a.percentage_cap_col) /\ a.percentage_cap_col.s \notin t.cols
    THEN "percentage_cap_col"
    ELSE IF Given(a.second_millage_rate_col) /\ a.second_millage_rate_col.s \notin t.cols
    THEN "second_millage_rate_col"
    ELSE ""

\* the call and lines 32-58: type checks, then column checks
CalcCall ==
    \E a \in CalcArgs :
        /\ Enter(a)
        /\ IF CalcTypeError(a) # "" THEN Raise("TypeError", CalcTypeError(a))
           ELSE IF CalcMissingColumn(a, frames["df"]) # ""
           THEN Raise("ValueError", CalcMissingColumn(a, frames["df"]))
           ELSE pc' = "calc_copy" /\ ret' = NoReturn

\* line 61
CalcCopy ==
    /\ pc = "calc_copy"
    /\ result_df' = CopyRef("df")
    /\ frames' = [frames EXCEPT ![CopyRef("df")] = frames["df"]]
    /\ pc' = "calc_numeric"
    /\ UNCHANGED <<call, loc, ret, df0, kept>>

\* a check that finds no secondary millage above the primary
NeverAbove(second, primary) == FALSE

\* line 70: (second > primary).any()
SecondAbovePrimary(second, primary) == AnyTrue(SGt(second, primary))

\* lines 64-71
CalcNumeric ==
    /\ pc = "calc_numeric"
    /\ LET v  == call.tax_value_col.s
           m  == call.millage_rate_col.s
           s  == call.second_millage_rate_col.s
           t1 == SetColumn(Work, v, ToNumeric(Column(Work, v)))
           t2 == SetColumn(t1, m, ToNumeric(Column(t1, m)))
           t3 == IF Given(call.second_millage_rate_col)
                 THEN SetColumn(t2, s, ToNumeric(Column(t2, s)))
                 ELSE t2
       IN  /\ frames' = [frames EXCEPT ![result_df] = t3]
           /\ IF Given(call.second_millage_rate_col)
                 /\ SecondAbovePrimary(Column(t3, s), Column(t3, m))
              THEN Raise("ValueError", "second_millage")
              ELSE pc' = "calc_exempt" /\ ret' = ret
    /\ UNCHANGED <<result_df, call, loc, df0, kept>>

\* lines 74-82
CalcExempt ==
    /\ pc = "calc_exempt"
    /\ LET v  == call.tax_value_col.s
           f  == call.exemption_flag_col.s
           x  == call.exemption_col.s
           t1 == IF Given(call.exemption_flag_col)
                 THEN SetColumn(Work, f, FillNa(ToNumeric(Column(Work, f)), Zero))
                 ELSE Work
           tv == IF Given(call.exemption_flag_col)
                 THEN WhereFlagZero(Column(t1, v), Column(t1, f))
                 ELSE Column(t1, v)
           t2 == IF Given(call.exemption_col)
                 THEN SetColumn(t1, x, FillNa(ToNumeric(Column(t1, x)), Zero))
                 ELSE t1
       IN  /\ frames' = [frames EXCEPT ![result_df] = t2]
           /\ loc' = [loc EXCEPT !.taxable_value =
                         IF Given(call.exemption_col)
                         THEN ClipLower0(SSub(tv, Column(t2, x)))
                         ELSE tv]
    /\ pc' = "calc_tax"
    /\ UNCHANGED <<result_df, call, ret, df0, kept>>

\* a tax that takes the millage per unit of value, not per 1000
TaxPerUnit(taxable, millage) == SMul(taxable, millage)

\* line 85: taxable_value * millage / 1000
TaxOf(taxable, millage) == SOver(SMul(taxable, millage), Num(1000))

CalcTax ==
    /\ pc = "calc_tax"
    /\ frames' = Assign("current_tax",
                        TaxOf(loc.taxable_value, Column(Work, call.millage_rate_col.s)))
    /\ pc' = "calc_cap"
    /\ UNCHANGED <<result_df, call, loc, ret, df0, kept>>

\* a cap that is taken as the tax whatever the tax
TakeCap(tax, max_tax) == max_tax

\* line 95: np.minimum(tax, max_tax)
ApplyCap(tax, max_tax) == SMin(tax, max_tax)

\* a cap taken as a fraction of the taxable value
CapOnTaxable(value, taxable, cap) == SMul(taxable, cap)

\* line 91: the cap is a fraction of the value as given, not of the taxable value
CapOnValue(value, taxable, cap) == SMul(value, cap)

\* lines 88-97
CalcCap ==
    /\ pc = "calc_cap"
    /\ LET c  == call.percentage_cap_col.s
           t1 == SetColumn(Work, c, FillNa(ToNumeric(Column(Work, c)), Num(1)))
           max_tax == CapOnValue(Column(t1, call.tax_value_col.s), loc.taxable_value,
                                 Column(t1, c))
           t2 == SetColumn(t1, "tax_capped", SGt(Column(t1, "current_tax"), max_tax))
           t3 == SetColumn(t2, "current_tax", ApplyCap(Column(t2, "current_tax"), max_tax))
           t4 == IF Given(call.percentage_cap_col) THEN t3 ELSE Work
       IN  frames' = [frames EXCEPT ![result_df] =
                         SetColumn(t4, "current_tax", FillNa(Column(t4, "current_tax"), Zero))]
    /\ pc' = "calc_total"
    /\ UNCHANGED <<result_df, call, loc, ret, df0, kept>>

\* lines 100-113
CalcTotal ==
    /\ pc = "calc_total"
    /\ LET total  == Sum(Column(Work, "current_tax"))
           s      == call.second_millage_rate_col.s
           second == FillNa(SMul(Column(Work, "current_tax"),
                                 SDiv(Column(Work, s),
                                      Column(Work, call.millage_rate_col.s))), Zero)
           t1     == IF Given(call.second_millage_rate_col)
                     THEN SetColumn(Work, "second_tax", second)
                     ELSE Work
       IN  /\ frames' = [frames EXCEPT ![result_df] = t1]
           /\ ret' = [NoReturn EXCEPT
                         !.status = "returned", !.frame = result_df,
                         !.total_revenue = total,
                         !.second_revenue =
                             IF Given(call.second_millage_rate_col)
                             THEN Sum(second) ELSE Zero]
    /\ pc' = "returned"
    /\ UNCHANGED <<result_df, call, loc, df0, kept>>

Calculator == CalcCall \/ CalcCopy \/ CalcNumeric \/ CalcExempt \/ CalcTax \/ CalcCap \/ CalcTotal

(***************************************************************************)
(* model_split_rate_tax                                                    *)
(***************************************************************************)
\* a number passed as a float or int
AFloat(v) == [t |-> "float", v |-> v]

\* a number passed as text that float() converts
ANumText(v) == [t |-> "text", v |-> v]

\* an argument float() cannot convert
ANotNum == [t |-> "other", v |-> None]

\* lines 153-162: float() succeeds
Convertible(a) == a.t \in {"float", "text"}

SolveArgsOf(x, f, c, rev, ratio) ==
    [fn |-> "model_split_rate_tax", df_is_frame |-> TRUE,
     land_value_col |-> AStr("land"), improvement_value_col |-> AStr("improvement"),
     current_revenue |-> rev, land_improvement_ratio |-> ratio,
     exemption_col |-> IF x THEN AStr("exemption") ELSE ANone,
     exemption_flag_col |-> IF f THEN AStr("exempt_flag") ELSE ANone,
     percentage_cap_col |-> IF c THEN AStr("cap") ELSE ANone]

SolveColArgs == {"land_value_col", "improvement_value_col", "exemption_col",
                 "exemption_flag_col", "percentage_cap_col"}

Revenues == {Num(2), Num(1), Zero, Num(-1)}

Ratios == {Num(3), Num(1)}

\* every choice of optional fields, target revenue and ratio; a negative ratio
\* without the cap; and, with all the fields, one argument of the wrong type
\* or naming no column, a number given as text, or a df that is no DataFrame
SolveArgs ==
    {SolveArgsOf(x, f, c, AFloat(rev), AFloat(ratio)) :
        x \in BOOLEAN, f \in BOOLEAN, c \in BOOLEAN, rev \in Revenues, ratio \in Ratios}
    \cup {SolveArgsOf(x, f, FALSE, AFloat(rev), AFloat(Num(-1))) :
             x \in BOOLEAN, f \in BOOLEAN, rev \in Revenues}
    \cup {[SolveArgsOf(TRUE, TRUE, TRUE, AFloat(Num(2)), AFloat(Num(3))) EXCEPT ![k] = b] :
             k \in SolveColArgs, b \in {AInt, AStr("nope")}}
    \cup {[SolveArgsOf(TRUE, TRUE, TRUE, AFloat(Num(2)), AFloat(Num(3))) EXCEPT ![k] = b] :
             k \in {"current_revenue", "land_improvement_ratio"},
             b \in {ANotNum, ANumText(Num(2))}}
    \cup {[SolveArgsOf(TRUE, TRUE, TRUE, AFloat(Num(2)), AFloat(Num(3)))
              EXCEPT !.df_is_frame = FALSE]}

\* lines 147-168: the first argument of the wrong type ("" if none)
SolveTypeError(a) ==
    IF ~a.df_is_frame THEN "df"
    ELSE IF ~IsStr(a.land_value_col) THEN "land_value_col"
    ELSE IF ~IsStr(a.improvement_value_col) THEN "improvement_value_col"
    ELSE IF ~Convertible(a.current_revenue) THEN "current_revenue"
    ELSE IF ~Convertible(a.land_improvement_ratio) THEN "land_improvement_ratio"
    ELSE IF Given(a.exemption_col) /\ ~IsStr(a.exemption_col) THEN "exemption_col"
    ELSE IF Given(a.exemption_flag_col) /\ ~IsStr(a.exemption_flag_col)
    THEN "exemption_flag_col"
    ELSE IF Given(a.percentage_cap_col) /\ ~IsStr(a.percentage_cap_col)
    THEN "percentage_cap_col"
    ELSE ""

\* a check that finds every column
NoMissingColumn(a, t) == ""

\* lines 171-179: the first argument naming no column of df ("" if none)
SolveMissingColumn(a, t) ==
    IF a.land_value_col.s \notin t.cols THEN "land_value_col"
    ELSE IF a.improvement_value_col.s \notin t.cols THEN "improvement_value_col"
    ELSE IF Given(a.exemption_col) /\ a.exemption_col.s \notin t.cols
    THEN "exemption_col"
    ELSE IF Given(a.exemption_flag_col) /\ a.exemption_flag_col.s \notin t.cols
    THEN "exemption_flag_col"
    ELSE IF Given(a.percentage_cap_col) /\ a.percentage_cap_col.s \notin t.cols
    THEN "percentage_cap_col"
    ELSE ""

\* the call and lines 147-179
SolveCall ==
    \E a \in SolveArgs :
        /\ Enter(a)
        /\ IF SolveTypeError(a) # "" THEN Raise("TypeError", SolveTypeError(a))
           ELSE IF SolveMissingColumn(a, frames["df"]) # ""
           THEN Raise("ValueError", SolveMissingColumn(a, frames["df"]))
           ELSE pc' = "solve_copy" /\ ret' = NoReturn

\* line 182
SolveCopy ==
    /\ pc = "solve_copy"
    /\ result_df' = CopyRef("df")
    /\ frames' = [frames EXCEPT ![CopyRef("df")] = frames["df"]]
    /\ loc' = [loc EXCEPT !.current_revenue = call.current_revenue.v,
                          !.land_improvement_ratio = call.land_improvement_ratio.v]
    /\ pc' = "solve_numeric"
    /\ UNCHANGED <<call, ret, df0, kept>>

\* lines 200-206: the exemption taken from the improvement value, and what it
\* leaves over from the land value
ExemptImprovement(imp, ex) == ClipLower0(SSub(imp, ex))

\* an exemption taken in full from the land value too
ExemptLandInFull(land, imp, ex) == ClipLower0(SSub(land, ex))

ExemptLand(land, imp, ex) == ClipLower0(SSub(land, ClipLower0(SSub(ex, imp))))

\* lines 185-206
SolveNumeric ==
    /\ pc = "solve_numeric"
    /\ LET l  == call.land_value_col.s
           i  == call.improvement_value_col.s
           f  == call.exemption_flag_col.s
           x  == call.exemption_col.s
           t1 == SetColumn(Work, l, FillNa(ToNumeric(Column(Work, l)), Zero))
           t2 == SetColumn(t1, i, FillNa(ToNumeric(Column(t1, i)), Zero))
           t3 == IF Given(call.exemption_flag_col)
                 THEN SetColumn(t2, f, FillNa(ToNumeric(Column(t2, f)), Zero))
                 ELSE t2
           ai == IF Given(call.exemption_flag_col)
                 THEN WhereFlagZero(Column(t3, i), Column(t3, f))
                 ELSE Column(t3, i)
           al == IF Given(call.exemption_flag_col)
                 THEN WhereFlagZero(Column(t3, l), Column(t3, f))
                 ELSE Column(t3, l)
           t4 == IF Given(call.exemption_col)
                 THEN SetColumn(t3, x, FillNa(ToNumeric(Column(t3, x)), Zero))
                 ELSE t3
       IN  /\ frames' = [frames EXCEPT ![result_df] = t4]
           /\ loc' = [loc EXCEPT
                         !.adj_improvement_value =
                             IF Given(call.exemption_col)
                             THEN ExemptImprovement(ai, Column(t4, x)) ELSE ai,
                         !.adj_land_value =
                             IF Given(call.exemption_col)
                             THEN ExemptLand(al, ai, Column(t4, x)) ELSE al]
    /\ pc' = "solve_totals"
    /\ UNCHANGED <<result_df, call, ret, df0, kept>>

\* line 213
Denominator(total_improvement, ratio, total_land) ==
    FAdd(total_improvement, FMul(ratio, total_land))

\* a check that lets a denominator of 0 through
DegenerateBelowZero(denominator) == FLt(denominator, Zero)

\* line 214
Degenerate(denominator) == FLe(denominator, Zero)

\* lines 209-215
SolveTotals ==
    /\ pc = "solve_totals"
    /\ LET tl == Sum(loc.adj_land_value)
           ti == Sum(loc.adj_improvement_value)
           dn == Denominator(ti, loc.land_improvement_ratio, tl)
       IN  /\ loc' = [loc EXCEPT !.total_land_value = tl,
                                 !.total_improvement_value = ti,
                                 !.denominator = dn]
           /\ IF Degenerate(dn) THEN Raise("ValueError", "taxable_value")
              ELSE pc' = "solve_seed" /\ ret' = ret
    /\ UNCHANGED <<frames, result_df, call, df0, kept>>

\* a closed form that leaves out the factor of 1000 (mills)
ClosedFormPerUnit(revenue, denominator) == FDiv(revenue, denominator)

\* lines 223 and 260
ClosedForm(revenue, denominator) == FDiv(FMul(revenue, Num(1000)), denominator)

\* a land rate that is the improvement rate, whatever the ratio
LandAtImprovementMillage(ratio, improvement_millage) == improvement_millage

\* lines 224, 252 and 261
LandMillage(ratio, improvement_millage) == FMul(ratio, improvement_millage)

\* lines 219-230, or lines 260-261 with no cap
SolveSeed ==
    /\ pc = "solve_seed"
    /\ LET c  == call.percentage_cap_col.s
           im == ClosedForm(loc.current_revenue, loc.denominator)
       IN  /\ frames' = IF Given(call.percentage_cap_col)
                        THEN Assign(c, FillNa(ToNumeric(Column(Work, c)), Num(1)))
                        ELSE frames
           /\ loc' = [loc EXCEPT
                         !.improvement_millage = im,
                         !.land_millage = LandMillage(loc.land_improvement_ratio, im),
                         !.iteration = 0]
           /\ pc' = IF Given(call.percentage_cap_col) THEN "solve_loop" ELSE "solve_tax"
    /\ UNCHANGED <<result_df, call, ret, df0, kept>>

max_iterations == 40

tolerance == Frac(1, 100000)

\* lines 220 and 239 (and 271-272): (land + improvement) * cap
MaxTax(t, a) ==
    SMul(SAdd(Column(t, a.land_value_col.s), Column(t, a.improvement_value_col.s)),
         Column(t, a.percentage_cap_col.s))

\* a land tax taken at the improvement rate
LandTaxAtImprovementRate(l) ==
    SOver(SScale(l.adj_land_value, l.improvement_millage), Num(1000))

\* lines 234-236 (and 264-266)
LandTax(l) == SOver(SScale(l.adj_land_value, l.land_millage), Num(1000))

ImprovementTax(l) ==
    SOver(SScale(l.adj_improvement_value, l.improvement_millage), Num(1000))

\* lines 234-243
CappedRevenue(t, a, l) ==
    Sum(ApplyCap(SAdd(LandTax(l), ImprovementTax(l)), MaxTax(t, a)))

\* line 246
Converged(new_total_revenue, current_revenue) ==
    FLt(FDiv(FAbs(FSub(new_total_revenue, current_revenue)), current_revenue), tolerance)

\* lines 232-254: one pass of the while loop
SolveIterate ==
    /\ pc = "solve_loop"
    /\ loc.iteration < max_iterations
    /\ LET rev == CappedRevenue(Work, call, loc)
           im  == FMul(loc.improvement_millage, FDiv(loc.current_revenue, rev))
       IN  IF IsZero(loc.current_revenue)
           THEN /\ Raise("ZeroDivisionError", "line 246")
                /\ loc' = [loc EXCEPT !.new_total_revenue = rev]
           ELSE IF Converged(rev, loc.current_revenue)
           THEN /\ pc' = "solve_after_loop"
                /\ loc' = [loc EXCEPT !.new_total_revenue = rev, !.converged = TRUE]
                /\ ret' = ret
           ELSE IF IsZero(rev)
           THEN /\ Raise("ZeroDivisionError", "line 250")
                /\ loc' = [loc EXCEPT !.new_total_revenue = rev]
           ELSE /\ pc' = "solve_loop"
                /\ loc' = [loc EXCEPT
                              !.new_total_revenue = rev,
                              !.improvement_millage = im,
                              !.land_millage = LandMillage(loc.land_improvement_ratio, im),
                              !.iteration = loc.iteration + 1]
                /\ ret' = ret
    /\ UNCHANGED <<frames, result_df, call, df0, kept>>

\* a warning as soon as one pass has scaled the rates
AnyPass(iteration) == iteration > 0

\* line 256
Exhausted(iteration) == iteration = max_iterations

\* lines 232 and 256-257: the loop is left, with a warning after max_iterations passes
SolveAfterLoop ==
    /\ \/ pc = "solve_after_loop"
       \/ pc = "solve_loop" /\ ~(loc.iteration < max_iterations)
    /\ loc' = [loc EXCEPT !.warned = Exhausted(loc.iteration)]
    /\ pc' = "solve_tax"
    /\ UNCHANGED <<frames, result_df, call, ret, df0, kept>>

\* lines 264-266
SolveTax ==
    /\ pc = "solve_tax"
    /\ LET t1 == SetColumn(Work, "land_tax", LandTax(loc))
           t2 == SetColumn(t1, "improvement_tax", ImprovementTax(loc))
       IN  frames' = [frames EXCEPT ![result_df] =
                         SetColumn(t2, "new_tax",
                                   SAdd(Column(t2, "land_tax"), Column(t2, "improvement_tax")))]
    /\ pc' = "solve_cap"
    /\ UNCHANGED <<result_df, call, loc, ret, df0, kept>>

\* lines 285-295: part / total_uncapped * new_tax where the cap applied
Redistribute(part, total_uncapped, new_tax, cap_applied) ==
    [i \in DOMAIN part |->
        IF cap_applied[i].n = 1
        THEN FMul(FDiv(part[i], total_uncapped[i]), new_tax[i])
        ELSE part[i]]

\* lines 269-295
SolveCap ==
    /\ pc = "solve_cap"
    /\ LET max_tax == MaxTax(Work, call)
           t1 == SetColumn(Work, "tax_capped", SGt(Column(Work, "new_tax"), max_tax))
           t2 == SetColumn(t1, "new_tax", ApplyCap(Column(t1, "new_tax"), max_tax))
           cap_applied == Column(t2, "tax_capped")
           total_uncapped == SAdd(Column(t2, "land_tax"), Column(t2, "improvement_tax"))
           t3 == SetColumn(t2, "land_tax",
                           Redistribute(Column(t2, "land_tax"), total_uncapped,
                                        Column(t2, "new_tax"), cap_applied))
           t4 == SetColumn(t3, "improvement_tax",
                           Redistribute(Column(t3, "improvement_tax"), total_uncapped,
                                        Column(t3, "new_tax"), cap_applied))
       IN  frames' = IF Given(call.percentage_cap_col)
                     THEN [frames EXCEPT ![result_df] = t4]
                     ELSE frames
    /\ pc' = "solve_finish"
    /\ UNCHANGED <<result_df, call, loc, ret, df0, kept>>

\* a percentage computed wherever current_tax is not 0
PctWhereNotZero(change, current) ==
    [i \in DOMAIN change |->
        IF ~FEq(current[i], Zero)
        THEN FMul(FDiv(change[i], current[i]), Num(100))
        ELSE Zero]

\* lines 304-308: 0 where current_tax is not above 0
TaxChangePct(change, current) ==
    [i \in DOMAIN change |->
        IF FGt(current[i], Zero)
        THEN FMul(FDiv(change[i], current[i]), Num(100))
        ELSE Zero]

\* lines 298-317
SolveFinish ==
    /\ pc = "solve_finish"
    /\ LET rev == Sum(Column(Work, "new_tax"))
           t1  == SetColumn(Work, "tax_change",
                            SSub(Column(Work, "new_tax"), Column(Work, "current_tax")))
           t2  == SetColumn(t1, "tax_change_pct",
                            TaxChangePct(Column(t1, "tax_change"), Column(t1, "current_tax")))
       IN  /\ loc' = [loc EXCEPT !.new_total_revenue = rev]
           /\ frames' = IF "current_tax" \in Work.cols
                        THEN [frames EXCEPT ![result_df] = t2]
                        ELSE frames
           /\ IF IsZero(loc.current_revenue)
              THEN Raise("ZeroDivisionError", "line 315")
              ELSE /\ pc' = "returned"
                   /\ ret' = [NoReturn EXCEPT
                                 !.status = "returned", !.frame = result_df,
                                 !.land_millage = loc.land_millage,
                                 !.improvement_millage = loc.improvement_millage,
                                 !.total_revenue = rev]
    /\ UNCHANGED <<result_df, call, df0, kept>>

Solver ==
    \/ SolveCall \/ SolveCopy \/ SolveNumeric \/ SolveTotals \/ SolveSeed
    \/ SolveIterate \/ SolveAfterLoop \/ SolveTax \/ SolveCap \/ SolveFinish

(***************************************************************************)
(* analyze_tax_impact_by_category                                          *)
(***************************************************************************)
\* the tables the reporter is given: a category, a zone, the current and the
\* new tax, the square footage and, in some tables, change columns made before
ReportCols == {"category", "zone", "current", "new", "sqft"}

ChangeCols == {"tax_change", "tax_change_pct"}

Taxed(cat, zone, current, new, sqft, change, pct) ==
    [c \in ReportCols \cup ChangeCols |->
        CASE c = "category" -> cat
          [] c = "zone" -> zone
          [] c = "current" -> current
          [] c = "new" -> new
          [] c = "sqft" -> sqft
          [] c = "tax_change" -> change
          [] c = "tax_change_pct" -> pct]

TaxedPool ==
    << \* an increase of one half
       Taxed(Str(1), Str(1), Num(2), Num(3), Num(2), Num(1), Num(10)),
       \* a decrease of one half, no square footage
       Taxed(Str(1), Str(2), Num(4), Num(2), Zero, Num(1), Num(10)),
       \* no current tax
       Taxed(Str(2), Str(1), Zero, Num(2), Num(4), Num(-1), Num(-10)),
       \* text in the tax and square footage cells
       Taxed(Str(2), Str(1), Txt, Txt, Txt, Zero, Zero),
       \* no change, negative square footage
       Taxed(Str(2), Str(2), Num(2), Num(2), Num(-2), Num(-1), NaN),
       \* no category, negative current tax
       Taxed(None, Str(1), Num(-2), Num(2), Num(2), Num(1), Num(10)) >>

TaxedChoices ==
    UNION {{ix \in [1..k -> 1..Len(TaxedPool)] :
               \A i \in 1..k : \A j \in 1..k : i <= j => ix[i] <= ix[j]} :
           k \in 0..MaxRows}

ReportFrames ==
    {Frame(cols, [i \in DOMAIN ix |-> [c \in cols |-> TaxedPool[ix[i]][c]]]) :
        ix \in TaxedChoices, cols \in {ReportCols, ReportCols \cup ChangeCols}}

ABool(b) == [t |-> "bool", s |-> IF b THEN "True" ELSE "False"]

\* a list of column names; list_of_str is whether every element is a string
AList(names, list_of_str) ==
    [t |-> "list", s |-> "", names |-> names, list_of_str |-> list_of_str]

ReportArgsOf(cats, q, by, asc) ==
    [fn |-> "analyze_tax_impact_by_category", df_is_frame |-> TRUE,
     category_cols |-> cats,
     current_tax_col |-> AStr("current"), new_tax_col |-> AStr("new"),
     sqft_col |-> IF q THEN AStr("sqft") ELSE ANone,
     sort_by |-> AStr(by), ascending |-> ABool(asc)]

CategoryArgs ==
    {AStr("category"), AList(<<"category">>, TRUE), AList(<<"category", "zone">>, TRUE)}

\* every choice of categories, square footage and order; and, with the square
\* footage, one argument of the wrong type or naming no column, a list with an
\* element that is no string, or a df that is no DataFrame
ReportArgs ==
    {ReportArgsOf(cats, q, by, asc) :
        cats \in CategoryArgs, q \in BOOLEAN, by \in {"count", "pct_change"},
        asc \in BOOLEAN}
    \cup {[ReportArgsOf(AStr("category"), TRUE, "count", FALSE) EXCEPT ![k] = b] :
             k \in {"category_cols", "current_tax_col", "new_tax_col", "sqft_col",
                    "sort_by"},
             b \in {AInt, AStr("nope")}}
    \cup {[ReportArgsOf(AStr("category"), TRUE, "count", FALSE)
              EXCEPT !.category_cols = b] :
             b \in {AList(<<"category", "">>, FALSE), AList(<<"category", "nope">>, TRUE)}}
    \cup {[ReportArgsOf(AStr("category"), TRUE, "count", FALSE)
              EXCEPT !.ascending = AInt]}
    \cup {[ReportArgsOf(AStr("category"), TRUE, "count", FALSE)
              EXCEPT !.df_is_frame = FALSE]}

\* lines 352-369: the first argument of the wrong type or value ("" if none)
ReportTypeError(a) ==
    IF ~a.df_is_frame THEN "df"
    ELSE IF a.category_cols.t \notin {"str", "list"} THEN "category_cols"
    ELSE IF a.category_cols.t = "list" /\ ~a.category_cols.list_of_str
    THEN "category_cols elements"
    ELSE IF ~IsStr(a.current_tax_col) THEN "current_tax_col"
    ELSE IF ~IsStr(a.new_tax_col) THEN "new_tax_col"
    ELSE IF Given(a.sqft_col) /\ ~IsStr(a.sqft_col) THEN "sqft_col"
    ELSE IF ~IsStr(a.sort_by) THEN "sort_by"
    ELSE IF a.sort_by.s \notin {"count", "pct_change"} THEN "sort_by value"
    ELSE IF a.ascending.t # "bool" THEN "ascending"
    ELSE ""

\* line 367 raises ValueError, the other checks TypeError
ReportErrorKind(what) == IF what = "sort_by value" THEN "ValueError" ELSE "TypeError"

\* lines 372-375 and 384-385
CatColsList(a) ==
    IF IsStr(a.category_cols) THEN <<a.category_cols.s>> ELSE a.category_cols.names

\* lines 377-381: the first argument naming no column of df ("" if none)
ReportMissingColumn(a, t) ==
    IF \E i \in DOMAIN CatColsList(a) : CatColsList(a)[i] \notin t.cols
    THEN "category_cols"
    ELSE IF a.current_tax_col.s \notin t.cols THEN "current_tax_col"
    ELSE IF a.new_tax_col.s \notin t.cols THEN "new_tax_col"
    ELSE IF Given(a.sqft_col) /\ a.sqft_col.s \notin t.cols THEN "sqft_col"
    ELSE ""

\* the call and lines 352-381: type checks, then column checks
ReportCall ==
    \E a \in ReportArgs :
        /\ Enter(a)
        /\ IF ReportTypeError(a) # ""
           THEN Raise(ReportErrorKind(ReportTypeError(a)), ReportTypeError(a))
           ELSE IF ReportMissingColumn(a, frames["df"]) # ""
           THEN Raise("ValueError", ReportMissingColumn(a, frames["df"]))
           ELSE pc' = "report_copy" /\ ret' = NoReturn

\* line 388
ReportCopy ==
    /\ pc = "report_copy"
    /\ result_df' = CopyRef("df")
    /\ frames' = [frames EXCEPT ![CopyRef("df")] = frames["df"]]
    /\ pc' = "report_numeric"
    /\ UNCHANGED <<call, loc, ret, df0, kept>>

\* lines 398-402: np.where(current > 0, change / current * 100, 0)
ChangePct(change, current) ==
    [i \in DOMAIN change |->
        IF FGt(current[i], Zero)
        THEN FMul(FDiv(change[i], current[i]), Num(100))
        ELSE Zero]

\* lines 389-402
ReportNumeric ==
    /\ pc = "report_numeric"
    /\ LET cur == call.current_tax_col.s
           new == call.new_tax_col.s
           t1  == SetColumn(Work, cur, FillNa(ToNumeric(Column(Work, cur)), Zero))
           t2  == SetColumn(t1, new, FillNa(ToNumeric(Column(t1, new)), Zero))
           t3  == IF "tax_change" \notin t2.cols
                  THEN SetColumn(t2, "tax_change", SSub(Column(t2, new), Column(t2, cur)))
                  ELSE t2
           t4  == IF "tax_change_pct" \notin t3.cols
                  THEN SetColumn(t3, "tax_change_pct",
                                 ChangePct(Column(t3, "tax_change"), Column(t3, cur)))
                  ELSE t3
       IN  frames' = [frames EXCEPT ![result_df] = t4]
    /\ pc' = "report_summary"
    /\ UNCHANGED <<result_df, call, loc, ret, df0, kept>>

\* a cell groupby and mean leave out
Missing(a) == a.k \in {"none", "nan"}

\* the values of s that are not NaN, in order
NotNaN(s) == SelectSeq(s, LAMBDA a : ~IsNaN(a))

\* Series.mean(): NaN is skipped, and the mean of nothing is NaN
Mean(s) ==
    IF Len(NotNaN(s)) = 0 THEN NaN ELSE FDiv(Sum(NotNaN(s)), Num(Len(NotNaN(s))))

\* the k-th smallest of the values of s, none of them NaN
Kth(s, k) ==
    LET below(v)   == Cardinality({j \in DOMAIN s : Cmp(s[j], v) < 0})
        upto(v)    == Cardinality({j \in DOMAIN s : Cmp(s[j], v) <= 0})
    IN  s[CHOOSE i \in DOMAIN s : below(s[i]) < k /\ k <= upto(s[i])]

\* Series.median(): NaN is skipped
Median(s) ==
    LET v == NotNaN(s)
        n == Len(v)
    IN  IF n = 0 THEN NaN
        ELSE IF n % 2 = 1 THEN Kth(v, (n + 1) \div 2)
        ELSE FDiv(FAdd(Kth(v, n \div 2), Kth(v, n \div 2 + 1)), Num(2))

\* (x > 0).sum() and (x < 0).sum()
CountAbove(s) == Cardinality({i \in DOMAIN s : FGt(s[i], Zero)})

CountBelow(s) == Cardinality({i \in DOMAIN s : FLt(s[i], Zero)})

\* the values of s at the rows ix
Take(s, ix) == [j \in DOMAIN ix |-> s[ix[j]]]

\* the key of row i: its values in the category columns
Key(t, cats, i) == [j \in DOMAIN cats |-> t.rows[i][cats[j]]]

\* line 405: the groups; rows with a missing category are in no group
GroupKeys(t, cats) ==
    {Key(t, cats, i) : i \in {r \in 1..NRows(t) :
                                 \A j \in DOMAIN cats : ~Missing(t.rows[r][cats[j]])}}

\* the order groupby gives the groups: by key, column after column
KeyLess(k1, k2) ==
    \E j \in DOMAIN k1 :
        /\ \A i \in 1..(j - 1) : k1[i] = k2[i]
        /\ k1[j].n < k2[j].n

SortedKeys(keys) ==
    [r \in 1..Cardinality(keys) |->
        CHOOSE k \in keys : Cardinality({k2 \in keys : KeyLess(k2, k)}) = r - 1]

\* the rows of one group
Members(t, cats, k) ==
    SelectSeq([i \in 1..NRows(t) |-> i], LAMBDA i : Key(t, cats, i) = k)

\* lines 425-435: the mean tax per square foot over the rows with sqft > 0
SafePpsf(tax, sqft) ==
    LET mask == SelectSeq([i \in DOMAIN sqft |-> i], LAMBDA i : FGt(sqft[i], Zero))
    IN  IF Len(mask) > 0 THEN Mean(SDiv(Take(tax, mask), Take(sqft, mask))) ELSE Zero

\* lines 408-438: the row of the summary for the group with key k
SummaryRow(t, a, k) ==
    LET ix     == Members(t, CatColsList(a), k)
        pct    == Take(Column(t, "tax_change_pct"), ix)
        change == Take(Column(t, "tax_change"), ix)
        cur    == Take(Column(t, a.current_tax_col.s), ix)
        new    == Take(Column(t, a.new_tax_col.s), ix)
        sqft   == Take(ToNumeric(Column(t, a.sqft_col.s)), ix)
    IN  [key |-> k,
         count |-> Num(Len(ix)),
         mean_pct_change |-> Mean(pct),
         median_pct_change |-> Median(pct),
         count_increase |-> Num(CountAbove(change)),
         count_decrease |-> Num(CountBelow(change)),
         pct_increase |-> FMul(FDiv(Num(CountAbove(change)), Num(Len(ix))), Num(100)),
         avg_current_tax |-> Mean(cur),
         avg_new_tax |-> Mean(new),
         avg_current_ppsf |-> IF Given(a.sqft_col) THEN SafePpsf(cur, sqft) ELSE None,
         avg_new_ppsf |-> IF Given(a.sqft_col) THEN SafePpsf(new, sqft) ELSE None]

Summary(t, a) ==
    LET keys == SortedKeys(GroupKeys(t, CatColsList(a)))
    IN  [r \in DOMAIN keys |-> SummaryRow(t, a, keys[r])]

\* line 437 with no group at all: grouped.apply gives a DataFrame, not a Series,
\* and whether it can be set as a column depends on the pandas at hand
EmptyApply == {"ValueError", "set"}

\* lines 405-438
ReportSummary ==
    /\ pc = "report_summary"
    /\ LET q  == call.sqft_col.s
           t1 == IF Given(call.sqft_col)
                 THEN SetColumn(Work, q, ToNumeric(Column(Work, q)))
                 ELSE Work
       IN  /\ frames' = [frames EXCEPT ![result_df] = t1]
           /\ loc' = [loc EXCEPT !.summary = Summary(Work, call)]
           /\ IF Given(call.sqft_col) /\ GroupKeys(Work, CatColsList(call)) = {}
              THEN \E outcome \in EmptyApply :
                      IF outcome = "ValueError"
                      THEN Raise("ValueError", "line 437")
                      ELSE pc' = "report_sort" /\ ret' = ret
              ELSE pc' = "report_sort" /\ ret' = ret
    /\ UNCHANGED <<result_df, call, df0, kept>>

\* sort_values: v[x] may stand before v[y]; NaN goes last
InOrder(x, y, ascending) ==
    \/ IsNaN(y)
    \/ /\ ~IsNaN(x)
       /\ IF ascending THEN Cmp(x, y) <= 0 ELSE Cmp(x, y) >= 0

\* lines 444-447: the orders sort_values may give (equal values in any order,
\* the sort is not a stable one)
SortOrders(v, ascending) ==
    {p \in [DOMAIN v -> DOMAIN v] :
        /\ \A i \in DOMAIN v : \A j \in DOMAIN v : i # j => p[i] # p[j]
        /\ \A i \in DOMAIN v : \A j \in DOMAIN v :
              i < j => InOrder(v[p[i]], v[p[j]], ascending)}

\* an order by count whatever sort_by says
AlwaysCount(a) == "count"

SortColumn(a) == IF a.sort_by.s = "pct_change" THEN "mean_pct_change" ELSE "count"

\* lines 441-449
ReportSort ==
    /\ pc = "report_sort"
    /\ \E p \in SortOrders([r \in DOMAIN loc.summary |-> loc.summary[r][SortColumn(call)]],
                           call.ascending.s = "True") :
          /\ loc' = [loc EXCEPT !.summary = [r \in DOMAIN loc.summary |-> loc.summary[p[r]]]]
          /\ ret' = [NoReturn EXCEPT
                        !.status = "returned",
                        !.summary = [r \in DOMAIN loc.summary |-> loc.summary[p[r]]]]
    /\ pc' = "returned"
    /\ UNCHANGED <<frames, result_df, call, df0, kept>>

Reporter == ReportCall \/ ReportCopy \/ ReportNumeric \/ ReportSummary \/ ReportSort

\* the caller lets the result go and is ready for its next call
Discard ==
    /\ pc \in {"returned", "raised"}
    /\ pc' = "idle"
    /\ call' = [fn |-> "none"]
    /\ loc' = NoLocals
    /\ ret' = NoReturn
    /\ result_df' = "none"
    /\ frames' = [frames EXCEPT !["copy"] = NoFrame]
    /\ df0' = frames["df"]
    /\ kept' = kept

Init ==
    /\ frames \in {[df |-> t, copy |-> NoFrame] : t \in InputFrames \cup ReportFrames}
    /\ result_df = "none"
    /\ pc = "idle"
    /\ call = [fn |-> "none"]
    /\ loc = NoLocals
    /\ ret = NoReturn
    /\ df0 = frames["df"]
    /\ kept = NoKept

Next == Calculator \/ Solver \/ Reporter \/ Discard

Spec == Init /\ [][Next]_vars

(***************************************************************************)
(* The calculator, then the solver: the caller takes the table the         *)
(* calculator returned, with its current_tax column, as the table of its   *)
(* next calls (df = calculate_current_tax(df, ...)[2]).  A table is taken  *)
(* over once.                                                              *)
(***************************************************************************)
\* the land-only parcel next to each parcel of the pool
PipelineFrames == {Frame(BaseCols, <<Pool[1], Pool[k]>>) : k \in DOMAIN Pool}

Adopt ==
    /\ pc = "returned"
    /\ call.fn = "calculate_current_tax"
    /\ "current_tax" \notin frames["df"].cols
    /\ frames' = [df |-> frames[ret.frame], copy |-> NoFrame]
    /\ pc' = "idle"
    /\ call' = [fn |-> "none"]
    /\ loc' = NoLocals
    /\ ret' = NoReturn
    /\ result_df' = "none"
    /\ df0' = frames[ret.frame]
    /\ kept' = kept

PipelineInit ==
    /\ frames \in {[df |-> t, copy |-> NoFrame] : t \in PipelineFrames}
    /\ result_df = "none"
    /\ pc = "idle"
    /\ call = [fn |-> "none"]
    /\ loc = NoLocals
    /\ ret = NoReturn
    /\ df0 = frames["df"]
    /\ kept = NoKept

PipelineNext == Calculator \/ Solver \/ Discard \/ Adopt

Pipeline == PipelineInit /\ [][PipelineNext]_vars

(***************************************************************************)
(* Calls one after another on one table: the caller keeps the outcome of   *)
(* one call, goes on calling, and compares.                                *)
(***************************************************************************)
\* the land-only parcel next to the parcel at its cap, the parcel with text
\* cells and the parcel with a negative land value
ReentrantFrames == {Frame(BaseCols, <<Pool[1], Pool[k]>>) : k \in {2, 6, 8}}

\* the table a finished call returned (none if it raised)
Returning == IF ret.frame = "none" THEN NoFrame ELSE frames[ret.frame]

\* the caller keeps the outcome of the call, the first it keeps
Keep ==
    /\ pc \in {"returned", "raised"}
    /\ kept = NoKept
    /\ kept' = [call |-> call, df |-> df0, ret |-> ret, table |-> Returning]
    /\ pc' = "idle"
    /\ call' = [fn |-> "none"]
    /\ loc' = NoLocals
    /\ ret' = NoReturn
    /\ result_df' = "none"
    /\ frames' = [frames EXCEPT !["copy"] = NoFrame]
    /\ df0' = frames["df"]

ReentrantInit ==
    /\ frames \in {[df |-> t, copy |-> NoFrame] : t \in ReentrantFrames}
    /\ result_df = "none"
    /\ pc = "idle"
    /\ call = [fn |-> "none"]
    /\ loc = NoLocals
    /\ ret = NoReturn
    /\ df0 = frames["df"]
    /\ kept = NoKept

ReentrantNext == Calculator \/ Solver \/ Discard \/ Keep

Reentrant == ReentrantInit /\ [][ReentrantNext]_vars

(***************************************************************************)
(* The solver with a cap field, on tables of non-negative values, for a    *)
(* ratio of 3, 1 or -1.                                                    *)
(***************************************************************************)
\* improvement only, worth 4, cap 0
ImprovementCapZero ==
    Parcel(Zero, Num(4), Num(4), Num(500), Num(500), Zero, Zero, Zero, 2)

\* the parcels of the pool with no negative value, in pairs with the
\* land-only parcel, the improvement capped at 1/2 and the parcel at its cap,
\* and the land-only parcel next to the improvement with cap 0
CapLoopFrames ==
    {Frame(BaseCols, <<Pool[k], Pool[j]>>) : k \in {1, 2, 3}, j \in {2, 3, 4, 6, 7, 9, 10}}
    \cup {Frame(BaseCols, <<Pool[1], ImprovementCapZero>>)}

CapLoopArgs ==
    {SolveArgsOf(x, f, TRUE, AFloat(rev), AFloat(ratio)) :
        x \in BOOLEAN, f \in BOOLEAN, rev \in {Num(2), Num(1)},
        ratio \in {Num(3), Num(1), Num(-1)}}

\* the call and lines 147-179, with the arguments above
LoopCall ==
    \E a \in CapLoopArgs :
        /\ Enter(a)
        /\ IF SolveTypeError(a) # "" THEN Raise("TypeError", SolveTypeError(a))
           ELSE IF SolveMissingColumn(a, frames["df"]) # ""
           THEN Raise("ValueError", SolveMissingColumn(a, frames["df"]))
           ELSE pc' = "solve_copy" /\ ret' = NoReturn

CapLoopInit ==
    /\ frames \in {[df |-> t, copy |-> NoFrame] : t \in CapLoopFrames}
    /\ result_df = "none"
    /\ pc = "idle"
    /\ call = [fn |-> "none"]
    /\ loc = NoLocals
    /\ ret = NoReturn
    /\ df0 = frames["df"]
    /\ kept = NoKept

CapLoopNext ==
    \/ LoopCall \/ SolveCopy \/ SolveNumeric \/ SolveTotals \/ SolveSeed
    \/ SolveIterate \/ SolveAfterLoop \/ SolveTax \/ SolveCap \/ SolveFinish
    \/ Discard

CapLoop == CapLoopInit /\ [][CapLoopNext]_vars

(***************************************************************************)
(* Properties                                                              *)
(***************************************************************************)
Returned(fn) == pc = "returned" /\ call.fn = fn

RaisedIn(fn) == pc = "raised" /\ call.fn = fn

\* the table a call returned
Result == frames[ret.frame]

\* the caller's table as the solver reads it: text and missing cells as 0
Read0(c) == FillNa(ToNumeric(Column(df0, c)), Zero)

C3_CapCallReturns ==
    (RaisedIn("model_split_rate_tax") /\ Given(call.percentage_cap_col)) =>
        /\ ret.status \in {"TypeError", "ValueError"}
        /\ loc.improvement_millage = None

\* C3: the errors found: a target revenue of 0, or a capped revenue of 0
C3_ZeroDivision ==
    /\ RaisedIn("model_split_rate_tax")
    /\ Given(call.percentage_cap_col)
    /\ ret.status = "ZeroDivisionError"
    /\ FGt(loc.denominator, Zero)

\* C4: when the calculator returns from a call with no cap, exemption or
\* exemption flag field, every parcel whose value and millage are numbers has
\* current_tax = value * millage / 1000 (a parcel with a value or millage that
\* is no number has current_tax 0), and total_revenue is the sum of current_tax.
C4_PlainTax ==
    (/\ Returned("calculate_current_tax")
     /\ ~Given(call.percentage_cap_col)
     /\ ~Given(call.exemption_col)
     /\ ~Given(call.exemption_flag_col)) =>
        /\ \A i \in 1..NRows(df0) :
              LET value   == Coerce(df0.rows[i][call.tax_value_col.s])
                  millage == Coerce(df0.rows[i][call.millage_rate_col.s])
              IN  Column(Result, "current_tax")[i] =
                      IF IsNaN(value) \/ IsNaN(millage) THEN Zero
                      ELSE FDiv(FMul(value, millage), Num(1000))
        /\ NRows(Result) = NRows(df0)
        /\ FEq(ret.total_revenue, Sum(Column(Result, "current_tax")))

\* C4 witness: values 100000, 200000 and 0 at millage 20 give taxes 2000, 4000
\* and 0 and a total of 6000
C4_Witness ==
    /\ Returned("calculate_current_tax")
    /\ Column(df0, "value") = <<Num(100000), Num(200000), Zero>>
    /\ Column(df0, "millage") = <<Num(20), Num(20), Num(20)>>
    /\ Column(Result, "current_tax") = <<Num(2000), Num(4000), Zero>>
    /\ ret.total_revenue = Num(6000)

\* every cell of the series is a number >= 0 or no number at all
NonNegative(s) == \A i \in DOMAIN s : IsNaN(Coerce(s[i])) \/ FLe(Zero, Coerce(s[i]))

\* C5 (as amended): when no value, millage or cap fraction of the input is
\* negative, every current_tax the calculator returns is >= 0; when no land
\* value, improvement value or cap fraction is negative and neither the target
\* revenue nor the ratio is, every new_tax the solver returns is >= 0.
C5_NonNegativeTax ==
    /\ (/\ Returned("calculate_current_tax")
        /\ NonNegative(Column(df0, call.tax_value_col.s))
        /\ NonNegative(Column(df0, call.millage_rate_col.s))
        /\ Given(call.percentage_cap_col) =>
               NonNegative(Column(df0, call.percentage_cap_col.s))) =>
           \A i \in 1..NRows(Result) : FLe(Zero, Column(Result, "current_tax")[i])
    /\ (/\ Returned("model_split_rate_tax")
        /\ NonNegative(Column(df0, call.land_value_col.s))
        /\ NonNegative(Column(df0, call.improvement_value_col.s))
        /\ Given(call.percentage_cap_col) =>
               NonNegative(Column(df0, call.percentage_cap_col.s))
        /\ FLe(Zero, call.current_revenue.v)
        /\ FLe(Zero, call.land_improvement_ratio.v)) =>
           \A i \in 1..NRows(Result) : FLe(Zero, Column(Result, "new_tax")[i])

\* C5 witness: the solver returns, with exemption, flag and cap fields, from
\* an input without negative numbers: one parcel at its cap, one exempted to 0
C5_Witness ==
    /\ Returned("model_split_rate_tax")
    /\ Given(call.percentage_cap_col)
    /\ Given(call.exemption_col)
    /\ Given(call.exemption_flag_col)
    /\ NonNegative(Column(df0, call.land_value_col.s))
    /\ NonNegative(Column(df0, call.improvement_value_col.s))
    /\ NonNegative(Column(df0, call.percentage_cap_col.s))
    /\ FGt(call.current_revenue.v, Zero)
    /\ \E i \in 1..NRows(Result) :
          /\ Column(Result, "tax_capped")[i] = Bool(TRUE)
          /\ FGt(Column(Result, "new_tax")[i], Zero)
    /\ \E i \in 1..NRows(Result) :
          /\ FGt(Read0("exemption")[i], Zero)
          /\ IsZero(Column(Result, "new_tax")[i])

\* C5 as first stated: no returned current_tax or new_tax is negative,
\* whatever the input
C5_NeverNegative ==
    /\ Returned("calculate_current_tax") =>
           \A i \in 1..NRows(Result) : FLe(Zero, Column(Result, "current_tax")[i])
    /\ Returned("model_split_rate_tax") =>
           \A i \in 1..NRows(Result) : FLe(Zero, Column(Result, "new_tax")[i])

\* parcel i of the input has a secondary millage above its primary millage,
\* both being numbers
AbovePrimary(i) ==
    LET second  == Coerce(df0.rows[i][call.second_millage_rate_col.s])
        primary == Coerce(df0.rows[i][call.millage_rate_col.s])
    IN  ~IsNaN(second) /\ ~IsNaN(primary) /\ Cmp(second, primary) > 0

PastSecondCheck == pc \in {"calc_exempt", "calc_tax", "calc_cap", "calc_total", "returned"}

C7_DegenerateBase ==
    call.fn = "model_split_rate_tax" =>
        LET denom == FAdd(Sum(loc.adj_improvement_value),
                          FMul(call.land_improvement_ratio.v, Sum(loc.adj_land_value)))
        IN  /\ (pc = "raised" /\ ret.msg = "taxable_value") =>
                  /\ ret.status = "ValueError"
                  /\ FLe(denom, Zero)
                  /\ loc.improvement_millage = None /\ loc.land_millage = None
                  /\ ret.improvement_millage = None /\ ret.land_millage = None
                  /\ ret.frame = "none"
                  /\ "new_tax" \notin frames["copy"].cols
            /\ pc \in {"solve_seed", "solve_loop", "solve_after_loop", "solve_tax",
                       "solve_cap", "solve_finish", "returned"} =>
                  /\ FGt(denom, Zero)
                  /\ FEq(loc.denominator, denom)
            /\ pc \in {"solve_loop", "solve_after_loop", "solve_tax", "solve_cap",
                       "solve_finish", "returned"} =>
                  /\ IsFinite(loc.improvement_millage)
                  /\ IsFinite(loc.land_millage)

\* C7 witness: parcels with land above 0, all of it exempt, so that the
\* denominator is exactly 0
C7_Witness ==
    /\ RaisedIn("model_split_rate_tax")
    /\ ret.msg = "taxable_value"
    /\ IsZero(loc.denominator)
    /\ NRows(df0) > 0
    /\ \A i \in 1..NRows(df0) : FGt(Read0(call.land_value_col.s)[i], Zero)

\* the columns the three functions derive
DerivedCols == {"current_tax", "tax_capped", "second_tax", "land_tax",
                "improvement_tax", "new_tax", "tax_change", "tax_change_pct"}

\* C8: at every point of every sequence of calls, returned from or raised in,
\* the caller's table is one of the tables it started with, with the columns
\* and the cells it had when the call was made.
C8_InputUntouched ==
    /\ frames["df"] = df0
    /\ df0 \in InputFrames \cup ReportFrames

\* C8 witness: the solver has returned a table with the derived columns and a
\* text cell read as 0, and the caller's table has neither
C8_Witness ==
    /\ Returned("model_split_rate_tax")
    /\ {"land_tax", "improvement_tax", "new_tax", "tax_capped"} \subseteq Result.cols
    /\ frames["df"].cols \cap DerivedCols = {}
    /\ \E i \in 1..NRows(df0) :
          /\ frames["df"].rows[i]["land"] = Txt
          /\ Result.rows[i]["land"] = Zero

\* the parameters that name a column: those required and those that may be None
RequiredCols(fn) ==
    CASE fn = "calculate_current_tax" -> {"tax_value_col", "millage_rate_col"}
      [] fn = "model_split_rate_tax" -> {"land_value_col", "improvement_value_col"}
      [] fn = "analyze_tax_impact_by_category" -> {"current_tax_col", "new_tax_col"}

OptionalCols(fn) ==
    CASE fn = "calculate_current_tax" ->
             {"exemption_col", "exemption_flag_col", "percentage_cap_col",
              "second_millage_rate_col"}
      [] fn = "model_split_rate_tax" ->
             {"exemption_col", "exemption_flag_col", "percentage_cap_col"}
      [] fn = "analyze_tax_impact_by_category" -> {"sqft_col"}

\* the call a has a parameter of the wrong type, or one that names no column of t
InvalidArgument(a, t) ==
    \/ ~a.df_is_frame
    \/ \E k \in RequiredCols(a.fn) : a[k].t # "str" \/ a[k].s \notin t.cols
    \/ \E k \in OptionalCols(a.fn) :
          a[k].t # "none" /\ (a[k].t # "str" \/ a[k].s \notin t.cols)
    \/ /\ a.fn = "model_split_rate_tax"
       /\ \E k \in {"current_revenue", "land_improvement_ratio"} :
             a[k].t \notin {"float", "text"}
    \/ /\ a.fn = "analyze_tax_impact_by_category"
       /\ \/ a.category_cols.t \notin {"str", "list"}
          \/ a.category_cols.t = "str" /\ a.category_cols.s \notin t.cols
          \/ /\ a.category_cols.t = "list"
             /\ \/ ~a.category_cols.list_of_str
                \/ \E i \in DOMAIN a.category_cols.names :
                      a.category_cols.names[i] \notin t.cols
          \/ a.sort_by.t # "str"
          \/ a.sort_by.s \notin {"count", "pct_change"}
          \/ a.ascending.t # "bool"

\* C9: a call with a parameter of the wrong type, or with a required or
\* optional column name that is no column of the table, has failed with
\* TypeError or ValueError: there is no copy of the table, no local value has
\* been computed, and nothing is returned.
C9_FailFast ==
    (call.fn # "none" /\ InvalidArgument(call, df0)) =>
        /\ pc = "raised"
        /\ ret.status \in {"TypeError", "ValueError"}
        /\ ret.frame = "none"
        /\ result_df = "none"
        /\ frames["copy"] = NoFrame
        /\ loc = NoLocals

\* C9 witness: the solver called with a cap field that is no column of a table
\* that otherwise would be accepted
C9_Witness ==
    /\ RaisedIn("model_split_rate_tax")
    /\ call.percentage_cap_col = AStr("nope")
    /\ ret = Raised("ValueError", "percentage_cap_col")
    /\ {"land", "improvement", "exemption", "exempt_flag"} \subseteq df0.cols
    /\ NRows(df0) = 2

\* C10: when the solver returns from a call with a cap field, every parcel
\* flagged tax_capped whose pre-cap total is not 0 has land_tax +
\* improvement_tax = new_tax and land_tax : improvement_tax as before the cap;
\* every other parcel has its pre-cap land_tax and improvement_tax; and every
\* land_tax and improvement_tax is a finite number.
C10_Redistribution ==
    (Returned("model_split_rate_tax") /\ Given(call.percentage_cap_col)) =>
        \A i \in 1..NRows(Result) :
            LET land0 == FDiv(FMul(loc.adj_land_value[i], ret.land_millage), Num(1000))
                imp0  == FDiv(FMul(loc.adj_improvement_value[i],
                                   ret.improvement_millage), Num(1000))
                land  == Column(Result, "land_tax")[i]
                imp   == Column(Result, "improvement_tax")[i]
            IN  /\ IsFinite(land) /\ IsFinite(imp)
                /\ IF /\ Column(Result, "tax_capped")[i] = Bool(TRUE)
                      /\ ~IsZero(FAdd(land0, imp0))
                   THEN /\ FEq(FAdd(land, imp), Column(Result, "new_tax")[i])
                        /\ FEq(FMul(land, imp0), FMul(imp, land0))
                   ELSE land = land0 /\ imp = imp0

\* C10: the case found: a parcel with a pre-cap total of 0 is flagged
\* tax_capped and gets a land_tax and an improvement_tax that are NaN
C10_NaNShare ==
    /\ Returned("model_split_rate_tax")
    /\ Given(call.percentage_cap_col)
    /\ \E i \in 1..NRows(Result) :
          /\ Column(Result, "tax_capped")[i] = Bool(TRUE)
          /\ IsZero(FDiv(FMul(loc.adj_land_value[i], ret.land_millage), Num(1000)))
          /\ IsZero(FDiv(FMul(loc.adj_improvement_value[i],
                              ret.improvement_millage), Num(1000)))
          /\ IsNaN(Column(Result, "land_tax")[i])
          /\ IsNaN(Column(Result, "improvement_tax")[i])

\* parcel i of the returned table had its tax reduced by the cap
Capped(i) == "tax_capped" \in Result.cols /\ Column(Result, "tax_capped")[i] = Bool(TRUE)

\* C11 (as amended): in the table the solver returns, every parcel whose tax
\* was not reduced by a cap has land_tax and improvement_tax in the proportion
\* ratio * adjusted land value : adjusted improvement value, that is, each at
\* its own rate with land_millage = ratio * improvement_millage.
C11_RateRatio ==
    Returned("model_split_rate_tax") =>
        /\ FEq(ret.land_millage, FMul(call.land_improvement_ratio.v, ret.improvement_millage))
        /\ \A i \in 1..NRows(Result) :
              ~Capped(i) =>
                  /\ FEq(FMul(Column(Result, "land_tax")[i], loc.adj_improvement_value[i]),
                         FMul(FMul(call.land_improvement_ratio.v,
                                   Column(Result, "improvement_tax")[i]),
                              loc.adj_land_value[i]))
                  /\ FEq(FMul(Column(Result, "land_tax")[i], Num(1000)),
                         FMul(loc.adj_land_value[i], ret.land_millage))

\* C11 witness: an uncapped parcel with land 2 and improvement 1 after the
\* exemption, taxed at a ratio of 3: its land tax is 6 times its improvement tax
C11_Witness ==
    /\ Returned("model_split_rate_tax")
    /\ call.land_improvement_ratio.v = Num(3)
    /\ \E i \in 1..NRows(Result) :
          /\ ~Capped(i)
          /\ loc.adj_land_value[i] = Num(2)
          /\ loc.adj_improvement_value[i] = Num(1)
          /\ ~IsZero(Column(Result, "improvement_tax")[i])
          /\ FEq(Column(Result, "land_tax")[i],
                 FMul(Num(6), Column(Result, "improvement_tax")[i]))

\* C11 as first stated: for every uncapped parcel with a non-zero
\* improvement_tax, land_tax / improvement_tax is the ratio itself
C11_TaxRatio ==
    Returned("model_split_rate_tax") =>
        \A i \in 1..NRows(Result) :
            (~Capped(i) /\ ~IsZero(Column(Result, "improvement_tax")[i])) =>
                FEq(FDiv(Column(Result, "land_tax")[i], Column(Result, "improvement_tax")[i]),
                    call.land_improvement_ratio.v)

\* max(0, a)
Max0(a) == IF FLt(a, Zero) THEN Zero ELSE a

\* the cell of column c of parcel i of the caller's table is no number: a
\* text, a missing value or NaN
NoNumber(c, i) == df0.rows[i][c].k \in {"str", "none", "nan"}

\* that cell, with v for what is no number
CellOr(c, i, v) ==
    IF NoNumber(c, i) THEN v
    ELSE IF df0.rows[i][c].k = "bool" THEN Num(df0.rows[i][c].n)
    ELSE df0.rows[i][c]

\* the cell of column c of parcel i of the caller's table, text and missing as 0
Cell0(c, i) == CellOr(c, i, Zero)

\* the solver has worked out the adjusted values
Adjusted ==
    /\ call.fn = "model_split_rate_tax"
    /\ pc \in {"solve_totals", "solve_seed", "solve_loop", "solve_after_loop",
               "solve_tax", "solve_cap", "solve_finish", "returned"}

\* C12: once the solver has worked out the adjusted values, for every parcel:
\* with a flag field, a flag that is not 0 makes both values 0; with an
\* exemption field, the exemption e is taken from the improvement value first
\* (max(0, improvement - e)) and only what is left of it from the land value
\* (max(0, land - max(0, e - improvement))), so both adjusted values are >= 0
\* and the value removed from the two together is at most e.
C12_ExemptionPipeline ==
    Adjusted =>
        \A i \in 1..NRows(df0) :
            LET exempt == /\ Given(call.exemption_flag_col)
                          /\ ~IsZero(Cell0(call.exemption_flag_col.s, i))
                land   == IF exempt THEN Zero ELSE Cell0(call.land_value_col.s, i)
                imp    == IF exempt THEN Zero ELSE Cell0(call.improvement_value_col.s, i)
                e      == Cell0(call.exemption_col.s, i)
                al     == loc.adj_land_value[i]
                ai     == loc.adj_improvement_value[i]
            IN  IF Given(call.exemption_col)
                THEN /\ ai = Max0(FSub(imp, e))
                     /\ al = Max0(FSub(land, Max0(FSub(e, imp))))
                     /\ FLe(Zero, ai) /\ FLe(Zero, al)
                     /\ FLe(FAdd(FSub(imp, ai), FSub(land, al)), e)
                ELSE ai = imp /\ al = land

\* C12 witness: a parcel with land 2, improvement 2 and an exemption of 3 is
\* left with no improvement value and a land value of 1
C12_Witness ==
    /\ Adjusted
    /\ Given(call.exemption_col)
    /\ \E i \in 1..NRows(df0) :
          /\ Cell0("land", i) = Num(2)
          /\ Cell0("improvement", i) = Num(2)
          /\ Cell0("exemption", i) = Num(3)
          /\ loc.adj_improvement_value[i] = Zero
          /\ loc.adj_land_value[i] = Num(1)

\* C13: when the calculator returns from a call with a cap field, every parcel
\* whose uncapped tax (taxable value * millage / 1000) and value are numbers
\* has current_tax = min(uncapped tax, value * cap fraction), the value being
\* the one given, before flag and exemption, and a missing cap fraction being
\* 1; its tax_capped is true exactly when current_tax is below the uncapped
\* tax.  A parcel whose value or millage is no number has current_tax 0 and
\* is not flagged.
C13_CalculatorCap ==
    (Returned("calculate_current_tax") /\ Given(call.percentage_cap_col)) =>
        \A i \in 1..NRows(df0) :
            LET value    == Coerce(df0.rows[i][call.tax_value_col.s])
                millage  == Coerce(df0.rows[i][call.millage_rate_col.s])
                fraction == IF IsNaN(Coerce(df0.rows[i][call.percentage_cap_col.s]))
                            THEN Num(1)
                            ELSE Coerce(df0.rows[i][call.percentage_cap_col.s])
                exempt   == /\ Given(call.exemption_flag_col)
                            /\ ~IsZero(Cell0(call.exemption_flag_col.s, i))
                flagged  == IF exempt THEN Zero ELSE value
                taxable  == IF Given(call.exemption_col)
                            THEN Max0(FSub(flagged, Cell0(call.exemption_col.s, i)))
                            ELSE flagged
                uncapped == FDiv(FMul(taxable, millage), Num(1000))
                max_tax  == FMul(value, fraction)
                tax      == Column(Result, "current_tax")[i]
                capped   == Column(Result, "tax_capped")[i]
            IN  IF IsNaN(uncapped) \/ IsNaN(max_tax)
                THEN tax = Zero /\ capped = Bool(FALSE)
                ELSE /\ tax = (IF FLe(uncapped, max_tax) THEN uncapped ELSE max_tax)
                     /\ capped = Bool(FLt(tax, uncapped))

\* C13 witness: without exemptions, a parcel worth 2 at a millage of 1000 and
\* a cap of 1/2 is taxed 1 and flagged; a parcel worth 4 at a millage of 500,
\* whose tax of 2 is exactly its cap, is taxed 2 and not flagged
C13_Witness ==
    /\ Returned("calculate_current_tax")
    /\ Given(call.percentage_cap_col)
    /\ ~Given(call.exemption_col)
    /\ ~Given(call.exemption_flag_col)
    /\ \E i \in 1..NRows(df0) :
          /\ df0.rows[i]["value"] = Num(2)
          /\ df0.rows[i]["millage"] = Num(1000)
          /\ df0.rows[i]["cap"] = Half
          /\ Column(Result, "current_tax")[i] = Num(1)
          /\ Column(Result, "tax_capped")[i] = Bool(TRUE)
    /\ \E i \in 1..NRows(df0) :
          /\ df0.rows[i]["value"] = Num(4)
          /\ df0.rows[i]["millage"] = Num(500)
          /\ df0.rows[i]["cap"] = Half
          /\ Column(Result, "current_tax")[i] = Num(2)
          /\ Column(Result, "tax_capped")[i] = Bool(FALSE)

\* C14 (as amended): the table the solver returns has the columns tax_change
\* and tax_change_pct exactly when the table it was given has a current_tax
\* column; then for every parcel tax_change = new_tax - current_tax, and
\* tax_change_pct is tax_change / current_tax * 100 where current_tax is
\* above 0 and 0 where it is 0 or below.
C14_TaxChange ==
    Returned("model_split_rate_tax") =>
        /\ ("tax_change" \in Result.cols) = ("current_tax" \in df0.cols)
        /\ ("tax_change_pct" \in Result.cols) = ("current_tax" \in df0.cols)
        /\ "current_tax" \in df0.cols =>
              \A i \in 1..NRows(Result) :
                  LET current == df0.rows[i]["current_tax"]
                      new     == Result.rows[i]["new_tax"]
                  IN  /\ Result.rows[i]["current_tax"] = current
                      /\ Result.rows[i]["tax_change"] = FSub(new, current)
                      /\ Result.rows[i]["tax_change_pct"] =
                             IF IsFinite(current) /\ current.n > 0
                             THEN FMul(FDiv(FSub(new, current), current), Num(100))
                             ELSE Zero

\* C14 witness: the solver returns a table whose parcels had a current tax
\* above 0, of 0 and below 0, with a new tax that differs from it
C14_Witness ==
    /\ Returned("model_split_rate_tax")
    /\ "current_tax" \in df0.cols
    /\ \E i \in 1..NRows(Result) :
          /\ FGt(df0.rows[i]["current_tax"], Zero)
          /\ ~IsZero(Result.rows[i]["tax_change_pct"])
    /\ \E i \in 1..NRows(Result) :
          /\ FLe(df0.rows[i]["current_tax"], Zero)
          /\ ~IsZero(Result.rows[i]["tax_change"])
          /\ IsZero(Result.rows[i]["tax_change_pct"])

\* C14 as first stated: tax_change_pct is 0 where current_tax is 0 and
\* (new_tax - current_tax) / current_tax * 100 wherever it is not
C14_PctUnlessZero ==
    (Returned("model_split_rate_tax") /\ "current_tax" \in df0.cols) =>
        \A i \in 1..NRows(Result) :
            LET current == df0.rows[i]["current_tax"]
                new     == Result.rows[i]["new_tax"]
            IN  Result.rows[i]["tax_change_pct"] =
                    IF IsZero(current) THEN Zero
                    ELSE FMul(FDiv(FSub(new, current), current), Num(100))

\* the cell of column c of parcel i of the caller's table, text and missing as 1
Cell1(c, i) == CellOr(c, i, Num(1))

\* the failures that are not failures of the validation of the arguments
LaterFailures == {"second_millage", "taxable_value", "line 246", "line 250", "line 315"}

\* C15 (as amended): a cell that is no number never makes a call of the
\* calculator or the solver fail: a call with valid arguments fails only at
\* the secondary-millage check, at the denominator check or at a division by
\* a revenue of 0.  In the table the
\* calculator returns, a parcel whose value or millage is no number has
\* current_tax 0, one whose secondary millage is no number has second_tax 0,
\* and exemption and flag cells that are no number are 0; in the table the
\* solver returns, land, improvement, exemption and flag cells that are no
\* number are 0.  A cap fraction that is no number is 1, not 0.  No
\* current_tax or new_tax is NaN or infinite, total_revenue is finite, and
\* second_revenue is finite unless a parcel has a millage that is the number 0.
C15_Coercion ==
    /\ (/\ pc = "raised"
        /\ call.fn \in {"calculate_current_tax", "model_split_rate_tax"}
        /\ ~InvalidArgument(call, df0)) =>
           /\ ret.msg \in LaterFailures
           /\ ret.msg = "second_millage" => \E i \in 1..NRows(df0) : AbovePrimary(i)
    /\ Returned("calculate_current_tax") =>
           /\ IsFinite(ret.total_revenue)
           /\ \/ IsFinite(ret.second_revenue)
              \/ \E i \in 1..NRows(df0) :
                    /\ ~NoNumber(call.millage_rate_col.s, i)
                    /\ IsZero(Cell0(call.millage_rate_col.s, i))
           /\ \A i \in 1..NRows(df0) :
                 /\ IsFinite(Result.rows[i]["current_tax"])
                 /\ (NoNumber(call.tax_value_col.s, i) \/ NoNumber(call.millage_rate_col.s, i))
                        => Result.rows[i]["current_tax"] = Zero
                 /\ Given(call.second_millage_rate_col) =>
                        /\ ~IsNaN(Result.rows[i]["second_tax"])
                        /\ (\/ NoNumber(call.second_millage_rate_col.s, i)
                            \/ NoNumber(call.millage_rate_col.s, i)
                            \/ NoNumber(call.tax_value_col.s, i))
                               => Result.rows[i]["second_tax"] = Zero
                 /\ Given(call.exemption_col) =>
                        Result.rows[i][call.exemption_col.s] = Cell0(call.exemption_col.s, i)
                 /\ Given(call.exemption_flag_col) =>
                        Result.rows[i][call.exemption_flag_col.s] =
                            Cell0(call.exemption_flag_col.s, i)
                 /\ Given(call.percentage_cap_col) =>
                        Result.rows[i][call.percentage_cap_col.s] =
                            Cell1(call.percentage_cap_col.s, i)
    /\ Returned("model_split_rate_tax") =>
           /\ IsFinite(ret.total_revenue)
           /\ \A i \in 1..NRows(df0) :
                 /\ IsFinite(Result.rows[i]["new_tax"])
                 /\ Result.rows[i][call.land_value_col.s] = Cell0(call.land_value_col.s, i)
                 /\ Result.rows[i][call.improvement_value_col.s] =
                        Cell0(call.improvement_value_col.s, i)
                 /\ Given(call.exemption_col) =>
                        Result.rows[i][call.exemption_col.s] = Cell0(call.exemption_col.s, i)
                 /\ Given(call.exemption_flag_col) =>
                        Result.rows[i][call.exemption_flag_col.s] =
                            Cell0(call.exemption_flag_col.s, i)
                 /\ Given(call.percentage_cap_col) =>
                        Result.rows[i][call.percentage_cap_col.s] =
                            Cell1(call.percentage_cap_col.s, i)

\* C15 witness: the calculator, called with every field, returns for a parcel
\* with text in its value, exemption, flag and cap cells a tax of 0, and for a
\* parcel worth 2 with text in its cap cell a tax of 2, the cap being 1
C15_Witness ==
    /\ Returned("calculate_current_tax")
    /\ Given(call.exemption_col) /\ Given(call.exemption_flag_col)
    /\ Given(call.percentage_cap_col) /\ Given(call.second_millage_rate_col)
    /\ \E i \in 1..NRows(df0) :
          /\ df0.rows[i]["value"] = Txt /\ df0.rows[i]["exemption"] = Txt
          /\ df0.rows[i]["exempt_flag"] = Txt /\ df0.rows[i]["cap"] = Txt
          /\ Result.rows[i]["current_tax"] = Zero
          /\ Result.rows[i]["exemption"] = Zero
    /\ \E i \in 1..NRows(df0) :
          /\ df0.rows[i]["value"] = Num(2) /\ df0.rows[i]["cap"] = Txt
          /\ Result.rows[i]["cap"] = Num(1)
          /\ Result.rows[i]["current_tax"] = Num(2)
    /\ ret.total_revenue = Num(2)

\* the tax of parcel i by the calculator's rules, every cell that is no number
\* read as 0
TaxReadAsZero(i) ==
    LET value    == Cell0(call.tax_value_col.s, i)
        exempt   == /\ Given(call.exemption_flag_col)
                    /\ ~IsZero(Cell0(call.exemption_flag_col.s, i))
        flagged  == IF exempt THEN Zero ELSE value
        taxable  == IF Given(call.exemption_col)
                    THEN Max0(FSub(flagged, Cell0(call.exemption_col.s, i)))
                    ELSE flagged
        uncapped == FDiv(FMul(taxable, Cell0(call.millage_rate_col.s, i)), Num(1000))
        max_tax  == FMul(value, Cell0(call.percentage_cap_col.s, i))
    IN  IF Given(call.percentage_cap_col) /\ FLt(max_tax, uncapped)
        THEN max_tax ELSE uncapped

\* C15 as first stated: the calculator's result is what it would be had every
\* cell that is no number held 0
C15_ReadAsZero ==
    Returned("calculate_current_tax") =>
        \A i \in 1..NRows(df0) : Result.rows[i]["current_tax"] = TaxReadAsZero(i)

\* parcel i of the caller's table has a value in every category column
Categorised(i) ==
    \A j \in DOMAIN CatColsList(call) :
        df0.rows[i][CatColsList(call)[j]].k \notin {"none", "nan"}

\* its combination of category values
Combination(i) == [j \in DOMAIN CatColsList(call) |-> df0.rows[i][CatColsList(call)[j]]]

\* the parcels of the combination k
ParcelsOf(k) == {i \in 1..NRows(df0) : Categorised(i) /\ Combination(i) = k}

\* the counts of the summary s, added up
RECURSIVE CountsFrom(_, _)
CountsFrom(s, r) == IF r > Len(s) THEN Zero ELSE FAdd(s[r].count, CountsFrom(s, r + 1))

RevenueAt(im) ==
    Sum([i \in 1..NRows(df0) |->
            LET uncapped == FAdd(FDiv(FMul(loc.adj_land_value[i],
                                           FMul(call.land_improvement_ratio.v, im)),
                                      Num(1000)),
                                 FDiv(FMul(loc.adj_improvement_value[i], im), Num(1000)))
                max_tax  == FMul(FAdd(Cell0(call.land_value_col.s, i),
                                      Cell0(call.improvement_value_col.s, i)),
                                 Cell1(call.percentage_cap_col.s, i))
            IN  IF FLt(max_tax, uncapped) THEN max_tax ELSE uncapped])

AfterLoop == {"solve_after_loop", "solve_tax", "solve_cap", "solve_finish", "returned"}

\* the counter and the warning at every state of a solver call
LoopBound ==
    call.fn = "model_split_rate_tax" =>
        /\ loc.iteration \in 0..max_iterations
        /\ loc.converged => loc.iteration < max_iterations
        /\ loc.warned => (loc.iteration = max_iterations /\ Given(call.percentage_cap_col))
        /\ (pc \in AfterLoop \ {"solve_after_loop"} /\ Given(call.percentage_cap_col)) =>
              /\ loc.warned = (loc.iteration = max_iterations)
              /\ loc.warned = ~loc.converged
        /\ (pc = "returned" /\ loc.warned) =>
              /\ ret.improvement_millage = loc.improvement_millage
              /\ ret.land_millage = loc.land_millage
              /\ ret.total_revenue = RevenueAt(ret.improvement_millage)
              /\ ret.total_revenue = Sum(Column(Result, "new_tax"))

\* every pass that stays in the loop counts one up and scales the rates by
\* target / capped revenue; from the loop's end to the return the rates and
\* the counter stay as they are
LoopStep ==
    call.fn = "model_split_rate_tax" =>
        /\ (pc = "solve_loop" /\ pc' = "solve_loop") =>
              /\ loc'.iteration = loc.iteration + 1
              /\ loc'.improvement_millage =
                     FMul(loc.improvement_millage,
                          FDiv(call.current_revenue.v, RevenueAt(loc.improvement_millage)))
        /\ (pc \in AfterLoop \cup {"solve_loop"} /\ pc' \in AfterLoop) =>
              /\ loc'.iteration = loc.iteration
              /\ loc'.improvement_millage = loc.improvement_millage
              /\ loc'.land_millage = loc.land_millage

\* C18: the loop's counter stays within 0..40 and every pass that does not
\* leave the loop counts one up, so the loop ends within 40 passes; the
\* warning is given exactly when the counter reached 40, that is when none of
\* 40 convergence tests passed; and a call that warned returns the rates of
\* its last scaling step and, as revenue, the sum of the capped new_tax at
\* those rates.
C18_LoopExhaustion == []LoopBound /\ [][LoopStep]_vars

\* C18 witness: a solver call has returned after 40 passes, with a warning,
\* and its revenue is not the target
C18_Witness ==
    /\ Returned("model_split_rate_tax")
    /\ loc.warned
    /\ loc.iteration = max_iterations
    /\ ~FEq(ret.total_revenue, call.current_revenue.v)

\* the two rates of a solver call stand in the ratio asked for
InRatio(land_millage, improvement_millage) ==
    land_millage = FMul(call.land_improvement_ratio.v, improvement_millage)

\* the rates at the head of every pass, after the loop and in the return
RatioKept ==
    call.fn = "model_split_rate_tax" =>
        /\ pc \in AfterLoop \cup {"solve_loop"} =>
              InRatio(loc.land_millage, loc.improvement_millage)
        /\ pc = "returned" => InRatio(ret.land_millage, ret.improvement_millage)

\* the seed of the loop is the closed form of the call without cap, and a
\* scaling step multiplies the improvement rate by target / capped revenue
SeedAndScaling ==
    (call.fn = "model_split_rate_tax" /\ Given(call.percentage_cap_col)) =>
        /\ (pc = "solve_seed" /\ pc' = "solve_loop") =>
              /\ loc'.iteration = 0
              /\ loc'.improvement_millage =
                     FDiv(FMul(call.current_revenue.v, Num(1000)), loc.denominator)
        /\ (pc = "solve_loop" /\ pc' = "solve_loop") =>
              /\ loc'.improvement_millage =
                     FMul(loc.improvement_millage,
                          FDiv(call.current_revenue.v, RevenueAt(loc.improvement_millage)))
              /\ loc'.land_millage =
                     FMul(loc.land_millage,
                          FDiv(call.current_revenue.v, RevenueAt(loc.improvement_millage)))

\* C19: the cap loop starts from the closed-form rates that ignore the cap;
\* at the head of every pass, after every scaling step (which multiplies both
\* rates by target / capped revenue) and in the returned values the land rate
\* is land_improvement_ratio times the improvement rate.
C19_FixedRatio == []RatioKept /\ [][SeedAndScaling]_vars

\* C19 witness: a solver call with a cap and a ratio other than 1 has scaled
\* its rates at least once and returned rates above the seed
C19_Witness ==
    /\ Returned("model_split_rate_tax")
    /\ Given(call.percentage_cap_col)
    /\ call.land_improvement_ratio.v = Num(3)
    /\ loc.iteration > 0
    /\ loc.converged
    /\ FLt(FDiv(FMul(call.current_revenue.v, Num(1000)), loc.denominator),
           ret.improvement_millage)

\* the values, exemptions and cap fractions of the caller's table are not
\* negative (a cell that is no number counts as it is read: 0, or 1 for the
\* cap fraction) and the target is positive
NoNegativeInput ==
    /\ call.fn = "model_split_rate_tax"
    /\ Given(call.percentage_cap_col)
    /\ FLt(Zero, call.current_revenue.v)
    /\ \A i \in 1..NRows(df0) :
          /\ FLe(Zero, Cell0(call.land_value_col.s, i))
          /\ FLe(Zero, Cell0(call.improvement_value_col.s, i))
          /\ FLe(Zero, Cell1(call.percentage_cap_col.s, i))
          /\ Given(call.exemption_col) => FLe(Zero, Cell0(call.exemption_col.s, i))

\* the capped revenue of the pass about to be made is at most the target
WithinTarget ==
    (pc = "solve_loop" /\ loc.iteration < max_iterations) =>
        FLe(RevenueAt(loc.improvement_millage), call.current_revenue.v)

\* a scaling step has a factor of at least 1 and lowers neither rate
ScalesUp ==
    (pc = "solve_loop" /\ pc' = "solve_loop") =>
        /\ FLe(Num(1), FDiv(call.current_revenue.v, RevenueAt(loc.improvement_millage)))
        /\ FLe(loc.improvement_millage, loc'.improvement_millage)
        /\ FLe(loc.land_millage, loc'.land_millage)

RatioNotNegative == FLe(Zero, call.land_improvement_ratio.v)

\* C20: for non-negative land and improvement values, exemptions and cap
\* fractions, a positive target and a ratio that is not negative, the capped
\* revenue of every pass of the loop is at most the target, every scaling
\* factor is at least 1 and neither rate ever decreases from a pass to the next.
C20_NoOvershoot ==
    /\ []((NoNegativeInput /\ RatioNotNegative) => WithinTarget)
    /\ [][(NoNegativeInput /\ RatioNotNegative) => ScalesUp]_vars

\* C20 witness: such a call has scaled its rates more than once, above the
\* seed, and is about to make another pass
C20_Witness ==
    /\ NoNegativeInput
    /\ RatioNotNegative
    /\ pc = "solve_loop"
    /\ loc.iteration = 2
    /\ FLt(FDiv(FMul(call.current_revenue.v, Num(1000)), loc.denominator),
           loc.improvement_millage)
    /\ FLt(RevenueAt(loc.improvement_millage), call.current_revenue.v)

\* C20 as stated, for any ratio
C20_AnyRatio ==
    /\ [](NoNegativeInput => WithinTarget)
    /\ [][NoNegativeInput => ScalesUp]_vars

\* the caller's table is a calculator's output and the call is a solver call
\* without cap whose target is the revenue of that table
TargetIsCurrentRevenue ==
    /\ call.fn = "model_split_rate_tax"
    /\ ~Given(call.percentage_cap_col)
    /\ "current_tax" \in df0.cols
    /\ call.current_revenue.v = Sum(Column(df0, "current_tax"))

\* such a call returns the revenue of the calculator, and tax changes that
\* sum to 0
Neutral ==
    (pc = "returned" /\ TargetIsCurrentRevenue) =>
        /\ ret.total_revenue = Sum(Column(df0, "current_tax"))
        /\ Sum(Column(Result, "new_tax")) = Sum(Column(Result, "current_tax"))
        /\ IsZero(Sum(Column(Result, "tax_change")))

\* the revenue the calculator returned is the sum of the current_tax column
\* of the table the caller takes over
AdoptsRevenue ==
    (pc = "returned" /\ call.fn = "calculate_current_tax" /\ pc' = "idle"
        /\ "current_tax" \notin df0.cols /\ "current_tax" \in df0'.cols) =>
        ret.total_revenue = Sum(Column(df0', "current_tax"))

====
